---- MODULE Spec2Model ----
(***************************************************************************)
(* Skill activation hooks: the JS hook (src/unnamed/part_001) and the TS   *)
(* hook (src/hooks/skill-activation-prompt.ts).                            *)
(*                                                                         *)
(* Strings are sequences of one-character strings, so that the matchers    *)
(* (glob -> regex conversion, \b keyword regex, substring containment,     *)
(* RegExp test) are computed the way the code computes them.               *)
(***************************************************************************)
EXTENDS Integers, Sequences, FiniteSets, TLC

VARIABLES
    hook,        \* which program runs: "js", "ts", or a matcher under test
    stdin,       \* what the hook reads from standard input
    ruleFile,    \* JS hook: <hooks dir>/../skills/skill-rules.json
    projectDir,  \* TS hook: is CLAUDE_PROJECT_DIR set
    projectFile, \* TS hook: $CLAUDE_PROJECT_DIR/.claude/skills/skill-rules.json
    globalFile,  \* TS hook: $HOME/.claude/skills/skill-rules.json
    pc,          \* position of main()
    userPrompt,  \* JS: userPrompt; TS: prompt (lower-cased)
    contextFiles,\* JS: contextFiles
    analysis,    \* JS: result of analyzePrompt
    message,     \* JS: result of formatMessage
    stdout,      \* sequence of payloads written with console.log
    stderr,      \* sequence of lines written with console.error
    exitCode,    \* process exit status, -1 while running
    rulesPath,   \* TS: which rule file main chose
    rules,       \* TS: the parsed rule document
    matchedSkills, \* TS: matchedSkills
    call,        \* matcher under test: its arguments
    ret          \* matcher under test: its result

vars == <<hook, stdin, ruleFile, projectDir, projectFile, globalFile, pc,
          userPrompt, contextFiles, analysis, message, stdout, stderr,
          exitCode, rulesPath, rules, matchedSkills, call, ret>>

(***************************************************************************)
(* Optional values (undefined / absent JSON members).                      *)
(***************************************************************************)
None == <<>>
Some(x) == <<x>>
IsSome(o) == Len(o) = 1
Get(o) == o[1]

(***************************************************************************)
(* Characters and String.prototype helpers.                                *)
(***************************************************************************)
UpperCase == <<"A","B","C","D","E","F","G","H","I","J","K","L","M",
               "N","O","P","Q","R","S","T","U","V","W","X","Y","Z">>
LowerCase == <<"a","b","c","d","e","f","g","h","i","j","k","l","m",
               "n","o","p","q","r","s","t","u","v","w","x","y","z">>
Digits == {"0","1","2","3","4","5","6","7","8","9"}

UpperSet == {UpperCase[i] : i \in 1..26}
LowerSet == {LowerCase[i] : i \in 1..26}

LowerOf == [c \in UpperSet |-> LowerCase[CHOOSE i \in 1..26 : UpperCase[i] = c]]

LowerChar(c) == IF c \in UpperSet THEN LowerOf[c] ELSE c

\* String.prototype.toLowerCase
toLowerCase(s) == [i \in 1..Len(s) |-> LowerChar(s[i])]

\* does `sub` occur in s at position i
OccursAt(s, sub, i) ==
    /\ i + Len(sub) - 1 <= Len(s)
    /\ \A k \in 1..Len(sub) : s[i + k - 1] = sub[k]

\* String.prototype.includes
includes(s, sub) == \E i \in 1..(Len(s) + 1) : OccursAt(s, sub, i)

\* String.prototype.replace(/from/g, to) for a literal `from`:
\* leftmost, non-overlapping, the replacement text is not rescanned
RECURSIVE ReplaceFrom(_, _, _, _)
ReplaceFrom(s, from, to, i) ==
    IF i > Len(s) THEN <<>>
    ELSE IF OccursAt(s, from, i)
         THEN to \o ReplaceFrom(s, from, to, i + Len(from))
         ELSE <<s[i]>> \o ReplaceFrom(s, from, to, i + 1)

replaceAll(s, from, to) == ReplaceFrom(s, from, to, 1)

\* String.prototype.trim yields the empty string iff nothing was appended
\* (every payload segment of formatMessage holds non-blank text)

(***************************************************************************)
(* RegExp: the subset of the syntax the hooks can produce from the         *)
(* modelled alphabets.  A compiled regex is [ok, toks]; ok = FALSE is the  *)
(* SyntaxError thrown by new RegExp.                                       *)
(***************************************************************************)
Tok(k, c, star) == [k |-> k, c |-> c, star |-> star]

BadRegex == [ok |-> FALSE, toks |-> <<>>]

IsAssertion(t) == t.k \in {"wb", "bol", "eol"}

RECURSIVE ParseFrom(_, _, _)
ParseFrom(src, i, acc) ==
    IF i > Len(src) THEN [ok |-> TRUE, toks |-> acc]
    ELSE LET c == src[i] IN
      CASE c = "\\" ->
             IF i = Len(src) THEN BadRegex
             ELSE IF src[i + 1] = "b"
                  THEN ParseFrom(src, i + 2, Append(acc, Tok("wb", "", FALSE)))
                  ELSE ParseFrom(src, i + 2, Append(acc, Tok("lit", src[i + 1], FALSE)))
        [] c = "." -> ParseFrom(src, i + 1, Append(acc, Tok("any", "", FALSE)))
        [] c = "^" -> ParseFrom(src, i + 1, Append(acc, Tok("bol", "", FALSE)))
        [] c = "$" -> ParseFrom(src, i + 1, Append(acc, Tok("eol", "", FALSE)))
        [] c = "[" ->
             IF /\ i + 3 <= Len(src)
                /\ src[i + 1] = "^"
                /\ src[i + 3] = "]"
             THEN ParseFrom(src, i + 4, Append(acc, Tok("not", src[i + 2], FALSE)))
             ELSE BadRegex
        [] c = "*" ->
             IF \/ acc = <<>>
                \/ IsAssertion(acc[Len(acc)])
                \/ acc[Len(acc)].star
             THEN BadRegex   \* "Nothing to repeat"
             ELSE ParseFrom(src, i + 1,
                    [acc EXCEPT ![Len(acc)] = Tok(@.k, @.c, TRUE)])
        [] c = "+" ->   \* x+ is x followed by x*
             IF \/ acc = <<>>
                \/ IsAssertion(acc[Len(acc)])
                \/ acc[Len(acc)].star
             THEN BadRegex   \* "Nothing to repeat"
             ELSE ParseFrom(src, i + 1,
                    Append(acc, Tok(acc[Len(acc)].k, acc[Len(acc)].c, TRUE)))
        [] OTHER -> ParseFrom(src, i + 1, Append(acc, Tok("lit", c, FALSE)))

\* new RegExp(src)
RegExpNew(src) == ParseFrom(src, 1, <<>>)

WordChars == UpperSet \cup LowerSet \cup Digits \cup {"_"}

IsWordChar(c) == c \in WordChars

\* \b at position pos (between text[pos-1] and text[pos])
AtWordBoundary(text, pos) ==
    LET before == pos > 1 /\ IsWordChar(text[pos - 1])
        after  == pos <= Len(text) /\ IsWordChar(text[pos])
    IN  before # after

CharMatches(t, ch, ignoreCase) ==
    CASE t.k = "lit" -> IF ignoreCase THEN LowerChar(t.c) = LowerChar(ch) ELSE t.c = ch
      [] t.k = "any" -> ch # "\n"
      [] t.k = "not" -> t.c # ch
      [] OTHER -> FALSE

\* can toks[i..] match text starting at pos
RECURSIVE MatchAt(_, _, _, _, _)
MatchAt(toks, i, text, pos, ignoreCase) ==
    IF i > Len(toks) THEN TRUE
    ELSE LET t == toks[i] IN
      CASE t.k = "wb"  -> AtWordBoundary(text, pos) /\ MatchAt(toks, i + 1, text, pos, ignoreCase)
        [] t.k = "bol" -> pos = 1 /\ MatchAt(toks, i + 1, text, pos, ignoreCase)
        [] t.k = "eol" -> pos = Len(text) + 1 /\ MatchAt(toks, i + 1, text, pos, ignoreCase)
        [] OTHER ->
             IF t.star
             THEN \/ MatchAt(toks, i + 1, text, pos, ignoreCase)
                  \/ /\ pos <= Len(text)
                     /\ CharMatches(t, text[pos], ignoreCase)
                     /\ MatchAt(toks, i, text, pos + 1, ignoreCase)
             ELSE /\ pos <= Len(text)
                  /\ CharMatches(t, text[pos], ignoreCase)
                  /\ MatchAt(toks, i + 1, text, pos + 1, ignoreCase)

\* RegExp.prototype.test of a successfully compiled regex (unanchored search)
RegExpTest(re, text, ignoreCase) ==
    \E start \in 1..(Len(text) + 1) : MatchAt(re.toks, 1, text, start, ignoreCase)

(***************************************************************************)
(* JS hook matchers.                                                       *)
(***************************************************************************)
\* GlobRegexSource without the ^...$ anchors (a substring search)
GlobRegexSource_unanchored(pattern) ==
    LET r1 == replaceAll(pattern, <<".">>, <<"\\", ".">>)
        r2 == replaceAll(r1, <<"*", "*">>, <<".", "*">>)
        r3 == replaceAll(r2, <<"*">>, <<"[", "^", "/", "]", "*">>)
    IN  replaceAll(r3, <<"?">>, <<".">>)

\* the regex source built from one glob pattern
GlobRegexSource(pattern) ==
    LET r1 == replaceAll(pattern, <<".">>, <<"\\", ".">>)
        r2 == replaceAll(r1, <<"*", "*">>, <<".", "*">>)
        r3 == replaceAll(r2, <<"*">>, <<"[", "^", "/", "]", "*">>)
        r4 == replaceAll(r3, <<"?">>, <<".">>)
    IN  <<"^">> \o r4 \o <<"$">>

\* one iteration of patterns.some(...) in matchesFilePattern
GlobPatternMatches(filePath, pattern) ==
    RegExpTest(RegExpNew(GlobRegexSource(pattern)), filePath, FALSE)

\* matchesFilePattern without the guard and with every() for some(): an empty
\* pattern list matches every path
matchesFilePattern_every(filePath, patterns) ==
    IF ~IsSome(patterns) THEN FALSE
    ELSE \A k \in 1..Len(Get(patterns)) : GlobPatternMatches(filePath, Get(patterns)[k])

matchesFilePattern(filePath, patterns) ==
    IF ~IsSome(patterns) \/ Len(Get(patterns)) = 0 THEN FALSE
    ELSE \E k \in 1..Len(Get(patterns)) : GlobPatternMatches(filePath, Get(patterns)[k])

\* result of a call that may throw
Returned(v) == [threw |-> FALSE, val |-> v]
Threw == [threw |-> TRUE, val |-> FALSE]

\* the regex source built from one keyword
KeywordRegexSource(keyword) ==
    <<"\\", "b">> \o toLowerCase(keyword) \o <<"\\", "b">>

\* keywords.some(...) from index k on: the first keyword whose regex does not
\* compile throws, unless an earlier keyword already matched
RECURSIVE KeywordsSome(_, _, _)
KeywordsSome(lowerText, keywords, k) ==
    IF k > Len(keywords) THEN Returned(FALSE)
    ELSE LET regex == RegExpNew(KeywordRegexSource(keywords[k])) IN
         IF ~regex.ok THEN Threw
         ELSE IF RegExpTest(regex, lowerText, TRUE) THEN Returned(TRUE)
         ELSE KeywordsSome(lowerText, keywords, k + 1)

containsKeywords(text, keywords) ==
    IF ~IsSome(keywords) \/ Len(Get(keywords)) = 0 THEN Returned(FALSE)
    ELSE KeywordsSome(toLowerCase(text), Get(keywords), 1)

matchesIntent(text, patterns) ==
    IF ~IsSome(patterns) \/ Len(Get(patterns)) = 0 THEN FALSE
    ELSE LET lowerText == toLowerCase(text) IN
         \E k \in 1..Len(Get(patterns)) :
             includes(lowerText, toLowerCase(Get(patterns)[k]))

(***************************************************************************)
(* JS hook: loadSkillRules, analyzePrompt, formatMessage.                  *)
(***************************************************************************)
\* a rule file on disk: absent, unparsable, or a parsed document whose
\* `skills` member is a list (JS hook shape) or a name -> rule mapping
\* (TS hook shape, kept as the sequence of its entries in insertion order)
AbsentFile == [kind |-> "absent", skills |-> <<>>]
CorruptFile == [kind |-> "corrupt", skills |-> <<>>]
ListDoc(skills) == [kind |-> "list", skills |-> skills]
MapDoc(skills) == [kind |-> "map", skills |-> skills]

\* loadSkillRules keeping the document of the first call for the later ones
loadSkillRules_cached(file) ==
    IF rules.kind # "absent" THEN [rules |-> rules, err |-> <<>>]
    ELSE CASE file.kind = "absent"  -> [rules |-> ListDoc(<<>>), err |-> <<>>]
           [] file.kind = "corrupt" -> [rules |-> ListDoc(<<>>),
                                        err |-> <<"Error loading skill-rules.json">>]
           [] OTHER -> [rules |-> file, err |-> <<>>]

\* loadSkillRules: [rules, err] where err are the console.error lines
loadSkillRules(file) ==
    CASE file.kind = "absent"  -> [rules |-> ListDoc(<<>>), err |-> <<>>]
      [] file.kind = "corrupt" -> [rules |-> ListDoc(<<>>),
                                   err |-> <<"Error loading skill-rules.json">>]
      [] OTHER -> [rules |-> file, err |-> <<>>]

\* optional member of skill.triggers (skill.triggers?.member)
Trigger(skill, member) ==
    IF IsSome(skill.triggers) THEN Get(skill.triggers)[member] ELSE None

\* contextFiles.filter(file => matchesFilePattern(file, patterns))
filterFiles(files, patterns) ==
    SelectSeq(files, LAMBDA f : matchesFilePattern(f, patterns))

FileReason(n) == "file context (" \o ToString(n) \o " files)"

\* what the matchers return for one rule: [kw, intent, matching, excluded]
\* (matching: the context files matching filePatterns; excluded: whether
\* all of them match an exclude pattern)
MatcherResults(skill, prompt, files) ==
    LET matching == IF IsSome(Trigger(skill, "filePatterns")) /\ Len(files) > 0
                    THEN filterFiles(files, Trigger(skill, "filePatterns"))
                    ELSE <<>>
    IN  [kw |-> IF IsSome(Trigger(skill, "keywords"))
                THEN containsKeywords(prompt, Trigger(skill, "keywords"))
                ELSE Returned(FALSE),
         intent |-> /\ IsSome(Trigger(skill, "intentPatterns"))
                    /\ matchesIntent(prompt, Trigger(skill, "intentPatterns")),
         matching |-> Len(matching),
         excluded |-> /\ Len(matching) > 0
                      /\ IsSome(Trigger(skill, "excludePatterns"))
                      /\ Len(filterFiles(matching, Trigger(skill, "excludePatterns")))
                            = Len(matching)]

\* ScoreSkill with the exclusion taking back the file contribution only
ScoreSkill_fileOnlyExclusion(skill, prompt, files) ==
    LET r == MatcherResults(skill, prompt, files)
        kept == (IF r.kw.val THEN 2 ELSE 0) + (IF r.intent THEN 3 ELSE 0)
        keptReasons == (IF r.kw.val THEN <<"keyword match">> ELSE <<>>)
                       \o (IF r.intent THEN <<"intent match">> ELSE <<>>)
    IN  IF r.kw.threw THEN [threw |-> TRUE, score |-> 0, reasons |-> <<>>]
        ELSE IF r.excluded
             THEN [threw |-> FALSE, score |-> kept, reasons |-> keptReasons]
             ELSE [threw |-> FALSE,
                   score |-> kept + (IF r.matching > 0 THEN 2 ELSE 0),
                   reasons |-> keptReasons
                               \o (IF r.matching > 0 THEN <<FileReason(r.matching)>> ELSE <<>>)]

\* ScoreSkill with the first trigger that hits deciding the score
ScoreSkill_firstHitWins(skill, prompt, files) ==
    LET r == MatcherResults(skill, prompt, files) IN
        IF r.kw.threw THEN [threw |-> TRUE, score |-> 0, reasons |-> <<>>]
        ELSE IF r.excluded
             THEN [threw |-> FALSE, score |-> 0, reasons |-> <<"excluded by pattern">>]
        ELSE IF r.kw.val
             THEN [threw |-> FALSE, score |-> 2, reasons |-> <<"keyword match">>]
        ELSE IF r.intent
             THEN [threw |-> FALSE, score |-> 3, reasons |-> <<"intent match">>]
        ELSE IF r.matching > 0
             THEN [threw |-> FALSE, score |-> 2, reasons |-> <<FileReason(r.matching)>>]
        ELSE [threw |-> FALSE, score |-> 0, reasons |-> <<>>]

\* ScoreSkill with the file branch pushing its reason but not adding to the
\* score
ScoreSkill_noFileScore(skill, prompt, files) ==
    LET r == MatcherResults(skill, prompt, files)
        kept == (IF r.kw.val THEN 2 ELSE 0) + (IF r.intent THEN 3 ELSE 0)
        keptReasons == (IF r.kw.val THEN <<"keyword match">> ELSE <<>>)
                       \o (IF r.intent THEN <<"intent match">> ELSE <<>>)
    IN  IF r.kw.threw THEN [threw |-> TRUE, score |-> 0, reasons |-> <<>>]
        ELSE IF r.excluded
             THEN [threw |-> FALSE, score |-> 0, reasons |-> <<"excluded by pattern">>]
             ELSE [threw |-> FALSE, score |-> kept,
                   reasons |-> keptReasons
                               \o (IF r.matching > 0 THEN <<FileReason(r.matching)>> ELSE <<>>)]

\* ScoreSkill with an exclusion that replaces the reasons but leaves the score
ScoreSkill_exclusionKeepsScore(skill, prompt, files) ==
    LET r == MatcherResults(skill, prompt, files)
        total == (IF r.kw.val THEN 2 ELSE 0) + (IF r.intent THEN 3 ELSE 0)
                 + (IF r.matching > 0 THEN 2 ELSE 0)
        allReasons == (IF r.kw.val THEN <<"keyword match">> ELSE <<>>)
                      \o (IF r.intent THEN <<"intent match">> ELSE <<>>)
                      \o (IF r.matching > 0 THEN <<FileReason(r.matching)>> ELSE <<>>)
    IN  IF r.kw.threw THEN [threw |-> TRUE, score |-> 0, reasons |-> <<>>]
        ELSE IF r.excluded
             THEN [threw |-> FALSE, score |-> total, reasons |-> <<"excluded by pattern">>]
             ELSE [threw |-> FALSE, score |-> total, reasons |-> allReasons]

\* ScoreSkill with the file reason counting only the files no exclude
\* pattern matches
ScoreSkill_countsKeptFiles(skill, prompt, files) ==
    LET r == MatcherResults(skill, prompt, files)
        matching == IF IsSome(Trigger(skill, "filePatterns")) /\ Len(files) > 0
                    THEN filterFiles(files, Trigger(skill, "filePatterns"))
                    ELSE <<>>
        kept == SelectSeq(matching,
                          LAMBDA f : ~matchesFilePattern(f, Trigger(skill, "excludePatterns")))
        total == (IF r.kw.val THEN 2 ELSE 0) + (IF r.intent THEN 3 ELSE 0)
                 + (IF r.matching > 0 THEN 2 ELSE 0)
        allReasons == (IF r.kw.val THEN <<"keyword match">> ELSE <<>>)
                      \o (IF r.intent THEN <<"intent match">> ELSE <<>>)
                      \o (IF r.matching > 0 THEN <<FileReason(Len(kept))>> ELSE <<>>)
    IN  IF r.kw.threw THEN [threw |-> TRUE, score |-> 0, reasons |-> <<>>]
        ELSE IF r.excluded
             THEN [threw |-> FALSE, score |-> 0, reasons |-> <<"excluded by pattern">>]
             ELSE [threw |-> FALSE, score |-> total, reasons |-> allReasons]

\* the body of the for loop of analyzePrompt up to the score test:
\* [threw, score, reasons]
ScoreSkill(skill, prompt, files) ==
    LET kw == IF IsSome(Trigger(skill, "keywords"))
              THEN containsKeywords(prompt, Trigger(skill, "keywords"))
              ELSE Returned(FALSE)
        s1 == IF kw.val THEN 2 ELSE 0
        r1 == IF kw.val THEN <<"keyword match">> ELSE <<>>
        intent == /\ IsSome(Trigger(skill, "intentPatterns"))
                  /\ matchesIntent(prompt, Trigger(skill, "intentPatterns"))
        s2 == IF intent THEN s1 + 3 ELSE s1
        r2 == IF intent THEN Append(r1, "intent match") ELSE r1
        checkFiles == IsSome(Trigger(skill, "filePatterns")) /\ Len(files) > 0
        matchingFiles == IF checkFiles
                         THEN filterFiles(files, Trigger(skill, "filePatterns"))
                         ELSE <<>>
        fileHit == Len(matchingFiles) > 0
        s3 == IF fileHit THEN s2 + 2 ELSE s2
        r3 == IF fileHit THEN Append(r2, FileReason(Len(matchingFiles))) ELSE r2
        excludedFiles == IF fileHit /\ IsSome(Trigger(skill, "excludePatterns"))
                         THEN filterFiles(matchingFiles, Trigger(skill, "excludePatterns"))
                         ELSE <<>>
        allExcluded == /\ fileHit
                       /\ IsSome(Trigger(skill, "excludePatterns"))
                       /\ Len(excludedFiles) = Len(matchingFiles)
    IN  IF kw.threw THEN [threw |-> TRUE, score |-> 0, reasons |-> <<>>]
        ELSE IF allExcluded
             THEN [threw |-> FALSE, score |-> 0, reasons |-> <<"excluded by pattern">>]
             ELSE [threw |-> FALSE, score |-> s3, reasons |-> r3]

Suggestion(skill, m) ==
    [skillName |-> skill.name, description |-> skill.description,
     mode |-> skill.mode, priority |-> skill.priority,
     score |-> m.score, reasons |-> m.reasons]

\* the bucket test with warn treated as blocking too
IsBlocking_warnBlocks(skill) == skill.mode \in {"block", "warn"}

\* skill.mode === "block"
IsBlocking(skill) == skill.mode = "block"

\* the for loop of analyzePrompt from rule k on
RECURSIVE AnalyzeLoop(_, _, _, _, _, _)
AnalyzeLoop(skills, k, prompt, files, suggestions, blockingSkills) ==
    IF k > Len(skills)
    THEN [threw |-> FALSE, suggestions |-> suggestions, blockingSkills |-> blockingSkills]
    ELSE LET skill == skills[k]
             m == ScoreSkill(skill, prompt, files)
         IN  IF m.threw
             THEN [threw |-> TRUE, suggestions |-> <<>>, blockingSkills |-> <<>>]
             ELSE IF m.score > 0
                  THEN IF IsBlocking(skill)
                       THEN AnalyzeLoop(skills, k + 1, prompt, files, suggestions,
                                        Append(blockingSkills, Suggestion(skill, m)))
                       ELSE AnalyzeLoop(skills, k + 1, prompt, files,
                                        Append(suggestions, Suggestion(skill, m)),
                                        blockingSkills)
                  ELSE AnalyzeLoop(skills, k + 1, prompt, files, suggestions, blockingSkills)

\* Array.prototype.sort((a, b) => b.score - a.score): stable, score descending
RECURSIVE InsertByScore(_, _)
InsertByScore(sorted, x) ==
    IF sorted = <<>> THEN <<x>>
    ELSE IF sorted[Len(sorted)].score >= x.score
         THEN Append(sorted, x)
         ELSE Append(InsertByScore(SubSeq(sorted, 1, Len(sorted) - 1), x),
                     sorted[Len(sorted)])

\* a sort that places a suggestion before the earlier ones of equal score
RECURSIVE InsertByScore_unstable(_, _)
InsertByScore_unstable(sorted, x) ==
    IF sorted = <<>> THEN <<x>>
    ELSE IF sorted[Len(sorted)].score > x.score
         THEN Append(sorted, x)
         ELSE Append(InsertByScore_unstable(SubSeq(sorted, 1, Len(sorted) - 1), x),
                     sorted[Len(sorted)])

RECURSIVE SortByScore_unstable(_)
SortByScore_unstable(s) ==
    IF s = <<>> THEN <<>>
    ELSE InsertByScore_unstable(SortByScore_unstable(SubSeq(s, 1, Len(s) - 1)), s[Len(s)])

RECURSIVE SortByScore(_)
SortByScore(s) ==
    IF s = <<>> THEN <<>>
    ELSE InsertByScore(SortByScore(SubSeq(s, 1, Len(s) - 1)), s[Len(s)])

\* analyzePrompt reading a `skills` mapping as a document without rules
analyzePrompt_mappingIsEmpty(file, prompt, files) ==
    LET loaded == loadSkillRules(file)
        looped == IF loaded.rules.kind = "map"
                  THEN [threw |-> FALSE, suggestions |-> <<>>, blockingSkills |-> <<>>]
                  ELSE AnalyzeLoop(loaded.rules.skills, 1, prompt, files, <<>>, <<>>)
    IN  [threw |-> looped.threw,
         suggestions |-> SortByScore(looped.suggestions),
         blockingSkills |-> looped.blockingSkills,
         err |-> loaded.err]

\* analyzePrompt(prompt, contextFiles): [threw, suggestions, blockingSkills, err]
\* a `skills` mapping is not iterable: for...of throws a TypeError
analyzePrompt(file, prompt, files) ==
    LET loaded == loadSkillRules(file)
        looped == IF loaded.rules.kind = "map"
                  THEN [threw |-> TRUE, suggestions |-> <<>>, blockingSkills |-> <<>>]
                  ELSE AnalyzeLoop(loaded.rules.skills, 1, prompt, files, <<>>, <<>>)
    IN  [threw |-> looped.threw,
         suggestions |-> SortByScore(looped.suggestions),
         blockingSkills |-> looped.blockingSkills,
         err |-> loaded.err]

\* one segment of the message text
Segment(kind, skill) ==
    [kind |-> kind, skillName |-> skill.skillName,
     description |-> skill.description, reasons |-> skill.reasons]

Heading(kind) ==
    [kind |-> kind, skillName |-> "", description |-> "", reasons |-> <<>>]

\* the suggestions section written for any number of suggestions
SuggestionsShown_anyNumber(suggestions) == Len(suggestions) > 0

\* the condition under which the suggestions section is written
SuggestionsShown(suggestions) == Len(suggestions) > 0 /\ Len(suggestions) <= 3

\* formatMessage with the directive naming the first blocking skill only
formatMessage_firstBlockingOnly(a) ==
    IF Len(a.blockingSkills) = 0 /\ Len(a.suggestions) = 0 THEN None
    ELSE Some((IF Len(a.blockingSkills) > 0
               THEN <<Heading("SKILL REQUIRED BEFORE PROCEEDING"),
                      Segment("required", a.blockingSkills[1]),
                      Heading("---")>>
               ELSE <<>>)
              \o (IF SuggestionsShown(a.suggestions)
                  THEN <<Heading("Suggested Skills")>>
                       \o [i \in 1..Len(a.suggestions) |->
                             Segment("suggested", a.suggestions[i])]
                  ELSE <<>>))

\* formatMessage(analysis): None is null, Some(<<>>) the empty string
formatMessage(a) ==
    IF Len(a.blockingSkills) = 0 /\ Len(a.suggestions) = 0 THEN None
    ELSE LET blockPart ==
                 IF Len(a.blockingSkills) > 0
                 THEN <<Heading("SKILL REQUIRED BEFORE PROCEEDING")>>
                      \o [i \in 1..Len(a.blockingSkills) |->
                            Segment("required", a.blockingSkills[i])]
                      \o <<Heading("---")>>
                 ELSE <<>>
             topSuggestions == SubSeq(a.suggestions, 1,
                                      IF Len(a.suggestions) < 3 THEN Len(a.suggestions) ELSE 3)
             suggestPart ==
                 IF SuggestionsShown(a.suggestions)
                 THEN <<Heading("Suggested Skills")>>
                      \o [i \in 1..Len(topSuggestions) |->
                            Segment("suggested", topSuggestions[i])]
                 ELSE <<>>
         IN  Some(blockPart \o suggestPart)

(***************************************************************************)
(* TS hook: the matching loop and the output of main.                      *)
(***************************************************************************)
\* Object.entries(rules.skills): the entries of a mapping in insertion
\* order; for a list, the index keys with the elements (which carry no
\* promptTriggers and no enforcement)
TsEntries(doc) ==
    IF doc.kind = "map" THEN doc.skills
    ELSE [i \in 1..Len(doc.skills) |->
            [name |-> ToString(i - 1), enforcement |-> "", priority |-> "",
             promptTriggers |-> None]]

\* triggers.keywords.some(kw => prompt.includes(kw.toLowerCase()))
tsKeywordMatch(prompt, keywords) ==
    \E k \in 1..Len(keywords) : includes(prompt, toLowerCase(keywords[k]))

\* triggers.intentPatterns.some(pattern => new RegExp(pattern, 'i').test(prompt))
RECURSIVE tsIntentSome(_, _, _)
tsIntentSome(prompt, patterns, k) ==
    IF k > Len(patterns) THEN Returned(FALSE)
    ELSE LET regex == RegExpNew(patterns[k]) IN
         IF ~regex.ok THEN Threw
         ELSE IF RegExpTest(regex, prompt, TRUE) THEN Returned(TRUE)
         ELSE tsIntentSome(prompt, patterns, k + 1)

\* the iteration with the intent patterns tried before the keywords
TsMatchSkill_intentFirst(config, prompt) ==
    IF ~IsSome(config.promptTriggers) THEN [threw |-> FALSE, matchType |-> ""]
    ELSE LET triggers == Get(config.promptTriggers)
             keywordMatch == /\ IsSome(triggers.keywords)
                             /\ tsKeywordMatch(prompt, Get(triggers.keywords))
             intentMatch == IF IsSome(triggers.intentPatterns)
                            THEN tsIntentSome(prompt, Get(triggers.intentPatterns), 1)
                            ELSE Returned(FALSE)
         IN  IF intentMatch.threw THEN [threw |-> TRUE, matchType |-> ""]
             ELSE IF intentMatch.val THEN [threw |-> FALSE, matchType |-> "intent"]
             ELSE IF keywordMatch THEN [threw |-> FALSE, matchType |-> "keyword"]
             ELSE [threw |-> FALSE, matchType |-> ""]

\* one iteration of the matching loop: [threw, matchType], matchType "" when
\* the skill is not pushed
TsMatchSkill(config, prompt) ==
    IF ~IsSome(config.promptTriggers) THEN [threw |-> FALSE, matchType |-> ""]
    ELSE LET triggers == Get(config.promptTriggers)
             keywordMatch == /\ IsSome(triggers.keywords)
                             /\ tsKeywordMatch(prompt, Get(triggers.keywords))
             intentMatch == IF IsSome(triggers.intentPatterns)
                            THEN tsIntentSome(prompt, Get(triggers.intentPatterns), 1)
                            ELSE Returned(FALSE)
         IN  IF keywordMatch THEN [threw |-> FALSE, matchType |-> "keyword"]
             ELSE IF intentMatch.threw THEN [threw |-> TRUE, matchType |-> ""]
             ELSE IF intentMatch.val THEN [threw |-> FALSE, matchType |-> "intent"]
             ELSE [threw |-> FALSE, matchType |-> ""]

RECURSIVE TsMatchLoop(_, _, _, _)
TsMatchLoop(entries, k, prompt, matched) ==
    IF k > Len(entries) THEN [threw |-> FALSE, matchedSkills |-> matched]
    ELSE LET m == TsMatchSkill(entries[k], prompt) IN
         IF m.threw THEN [threw |-> TRUE, matchedSkills |-> <<>>]
         ELSE IF m.matchType # ""
              THEN TsMatchLoop(entries, k + 1, prompt,
                     Append(matched,
                            [name |-> entries[k].name, matchType |-> m.matchType,
                             enforcement |-> entries[k].enforcement]))
              ELSE TsMatchLoop(entries, k + 1, prompt, matched)

\* the rule file main reads: project file if CLAUDE_PROJECT_DIR is set and
\* the file exists, else the global file
TsRulesPath(dirSet, project) ==
    IF dirSet /\ project.kind # "absent" THEN "project" ELSE "global"

\* the blocking filter letting every matched skill through
TsBlocking_everyMatch(matched) == matched

TsBlocking(matched) == SelectSeq(matched, LAMBDA m : m.enforcement = "block")
TsSuggested(matched) == SelectSeq(matched, LAMBDA m : m.enforcement # "block")

TsDirective(blockingSkills) ==
    <<Heading("SKILL ACTIVATION REQUIRED")>>
    \o [i \in 1..Len(blockingSkills) |->
          [kind |-> "required", skillName |-> blockingSkills[i].name,
           description |-> "", reasons |-> <<>>]]
    \o <<Heading("ACTION")>>

ErrLine(line, names) == [line |-> line, names |-> names]

Names(matched) == [i \in 1..Len(matched) |-> matched[i].name]

(***************************************************************************)
(* Inputs.                                                                 *)
(***************************************************************************)
MaxRules == 4

\* the elements of a pool at the indices of I, in pool order
Pick(pool, I) ==
    LET idx == SelectSeq([i \in 1..Len(pool) |-> i], LAMBDA i : i \in I)
    IN  [k \in 1..Len(idx) |-> pool[idx[k]]]

Reverse(q) == [i \in 1..Len(q) |-> q[Len(q) + 1 - i]]

\* every selection of at most n rules of a pool, declared in pool order or
\* in reverse pool order
Collections(pool, n) ==
    LET picks == {Pick(pool, I) : I \in {J \in SUBSET (1..Len(pool)) : Cardinality(J) <= n}}
    IN  picks \cup {Reverse(q) : q \in picks}

S_react == <<"r","e","a","c","t">>
S_api == <<"a","p","i">>
S_create == <<"c","r","e","a","t","e">>
S_component == <<"c","o","m","p","o","n","e","n","t">>
S_drop == <<"d","r","o","p">>
S_deleteProduction == <<"d","e","l","e","t","e",".","*","p","r","o","d","u","c","t","i","o","n">>
S_createComponent == <<"c","r","e","a","t","e",".","*","c","o","m","p","o","n","e","n","t">>
S_starSql == <<"*",".","s","q","l">>
S_starTestSql == <<"*","_","t","e","s","t",".","s","q","l">>
S_srcStarStar == <<"s","r","c","/","*","*">>

P_react == <<"C","r","e","a","t","e"," ","a"," ","R","e","a","c","t"," ","c","o","m","p","o","n","e","n","t"," ","w","i","t","h"," ","M","U","I">>
P_delete == <<"p","l","e","a","s","e"," ","d","e","l","e","t","e"," ","t","h","e"," ","p","r","o","d","u","c","t","i","o","n"," ","d","a","t","a","b","a","s","e">>
P_drop == <<"d","r","o","p"," ","t","h","e"," ","A","P","I">>
P_rapidly == <<"r","a","p","i","d","l","y">>

F_migrateTest == <<"m","i","g","r","a","t","e","_","t","e","s","t",".","s","q","l">>
F_db == <<"d","b",".","s","q","l">>
F_app == <<"s","r","c","/","a","p","p",".","t","s">>
F_nested == <<"s","r","c","/","a","/","b",".","t","s">>

Triggers(kw, intent, files, excl) ==
    Some([keywords |-> kw, intentPatterns |-> intent,
          filePatterns |-> files, excludePatterns |-> excl])

JsRule(name, mode, priority, triggers) ==
    [name |-> name, description |-> "about " \o name, mode |-> mode,
     priority |-> priority, triggers |-> triggers]

JsRulePool ==
    << JsRule("frontend-dev-guidelines", "suggest", "high",
              Triggers(Some(<<S_react>>), None, None, None)),
       JsRule("backend-dev-guidelines", "suggest", "medium",
              Triggers(Some(<<S_api>>), Some(<<S_create>>), None, None)),
       JsRule("prod-guard", "block", "critical",
              Triggers(None, Some(<<S_deleteProduction, S_drop>>), None, None)),
       JsRule("sql-guide", "suggest", "low",
              Triggers(Some(<<S_react>>), Some(<<S_create>>),
                       Some(<<S_starSql>>), Some(<<S_starTestSql>>))),
       JsRule("route-tester", "block", "high",
              Triggers(Some(<<S_react, S_api>>), None, Some(<<S_srcStarStar>>), None)),
       JsRule("error-tracking", "warn", "medium",
              Triggers(None, Some(<<S_component>>), Some(<<S_starSql>>), None)) >>

JsRuleFiles ==
    {AbsentFile, CorruptFile} \cup {ListDoc(c) : c \in Collections(JsRulePool, MaxRules)}

TsRule(name, enforcement, priority, promptTriggers) ==
    [name |-> name, enforcement |-> enforcement, priority |-> priority,
     promptTriggers |-> promptTriggers]

PromptTriggers(kw, intent) == Some([keywords |-> kw, intentPatterns |-> intent])

TsRulePool ==
    << TsRule("frontend-dev-guidelines", "suggest", "high",
              PromptTriggers(Some(<<S_react>>), Some(<<S_createComponent>>))),
       TsRule("prod-guard", "block", "critical",
              PromptTriggers(None, Some(<<S_deleteProduction, S_drop>>))),
       TsRule("api-guard", "block", "high",
              PromptTriggers(Some(<<S_api>>), None)) >>

TsRuleFiles ==
    {AbsentFile, CorruptFile} \cup {MapDoc(c) : c \in Collections(TsRulePool, MaxRules)}

Prompts == {P_react, P_delete, P_drop, P_rapidly}

FileLists == {<<F_migrateTest>>, <<F_db, F_migrateTest>>, <<F_app>>, <<F_nested, F_db>>}

\* the JSON document on standard input, or text that does not parse
StdinDoc(prompt, files, contextFilesMember) ==
    [valid |-> TRUE, prompt |-> prompt, files |-> files,
     context_files |-> contextFilesMember]

InvalidStdin == [valid |-> FALSE, prompt |-> None, files |-> None, context_files |-> None]

PromptMembers == {None, Some(<<>>)} \cup {Some(p) : p \in Prompts}

JsStdins ==
    {InvalidStdin}
    \cup {StdinDoc(p, f, None) : p \in PromptMembers,
                                 f \in {None, Some(<<>>)} \cup {Some(l) : l \in FileLists}}
    \cup {StdinDoc(p, None, Some(<<F_db>>)) : p \in PromptMembers}

TsStdins == {InvalidStdin} \cup {StdinDoc(p, None, None) : p \in PromptMembers}

NoAnalysis == [suggestions |-> <<>>, blockingSkills |-> <<>>]

(***************************************************************************)
(* The hooks as state machines.                                            *)
(***************************************************************************)
Idle ==
    /\ pc = "start"
    /\ userPrompt = <<>>
    /\ contextFiles = <<>>
    /\ rulesPath = ""
    /\ rules = AbsentFile
    /\ analysis = NoAnalysis
    /\ matchedSkills = <<>>
    /\ message = None
    /\ stdout = <<>>
    /\ stderr = <<>>
    /\ exitCode = -1
    /\ call = <<>>
    /\ ret = <<>>

InitJs ==
    /\ hook = "js"
    /\ stdin \in JsStdins
    /\ ruleFile \in JsRuleFiles
    /\ projectDir = FALSE
    /\ projectFile = AbsentFile
    /\ globalFile = AbsentFile
    /\ Idle

InitTs ==
    /\ hook = "ts"
    /\ stdin \in TsStdins
    /\ ruleFile = AbsentFile
    /\ projectDir \in BOOLEAN
    /\ projectFile \in TsRuleFiles
    /\ globalFile \in TsRuleFiles
    /\ Idle

Init == InitJs \/ InitTs

\* process.exit(code)
Exit(code) ==
    /\ exitCode' = code
    /\ pc' = "done"

\* JS main: readStdin, the extraction of prompt and context files, and the
\* early exit on an empty prompt
JsReadInput ==
    /\ hook = "js"
    /\ pc = "start"
    /\ IF ~stdin.valid
       THEN /\ stderr' = Append(stderr, ErrLine("Hook error", <<>>))
            /\ Exit(0)
            /\ UNCHANGED <<userPrompt, contextFiles>>
       ELSE LET p == IF IsSome(stdin.prompt) THEN Get(stdin.prompt) ELSE <<>>
                f == IF IsSome(stdin.files) THEN Get(stdin.files)
                     ELSE IF IsSome(stdin.context_files) THEN Get(stdin.context_files)
                     ELSE <<>>
            IN  /\ userPrompt' = p
                /\ contextFiles' = f
                /\ IF p = <<>> THEN Exit(0)
                   ELSE pc' = "analyze" /\ UNCHANGED exitCode
                /\ UNCHANGED stderr
    /\ UNCHANGED <<hook, stdin, ruleFile, projectDir, projectFile, globalFile,
                   rulesPath, rules, analysis, matchedSkills, message, stdout,
                   call, ret>>

\* JS main: const analysis = analyzePrompt(userPrompt, contextFiles)
JsAnalyze ==
    /\ hook = "js"
    /\ pc = "analyze"
    /\ \E a \in {analyzePrompt(ruleFile, userPrompt, contextFiles)} :
       IF a.threw
       THEN /\ stderr' = stderr \o a.err \o <<ErrLine("Hook error", <<>>)>>
            /\ Exit(0)
            /\ UNCHANGED analysis
       ELSE /\ stderr' = stderr \o a.err
            /\ analysis' = [suggestions |-> a.suggestions,
                            blockingSkills |-> a.blockingSkills]
            /\ pc' = "format"
            /\ UNCHANGED exitCode
    /\ UNCHANGED <<hook, stdin, ruleFile, projectDir, projectFile, globalFile,
                   userPrompt, contextFiles, rulesPath, rules, matchedSkills,
                   message, stdout, call, ret>>

\* JS main: formatMessage, console.log of a non-empty message, exit
JsOutput ==
    /\ hook = "js"
    /\ pc = "format"
    /\ \E m \in {formatMessage(analysis)} :
       /\ message' = m
       /\ stdout' = IF IsSome(m) /\ Get(m) # <<>> THEN Append(stdout, Get(m)) ELSE stdout
    /\ Exit(0)
    /\ UNCHANGED <<hook, stdin, ruleFile, projectDir, projectFile, globalFile,
                   userPrompt, contextFiles, rulesPath, rules, analysis,
                   matchedSkills, stderr, call, ret>>

TsFail ==
    /\ stderr' = Append(stderr, ErrLine("Error in skill-activation-prompt hook", <<>>))
    /\ Exit(1)

\* TS main: read and parse stdin, lower-case the prompt
TsReadInput ==
    /\ hook = "ts"
    /\ pc = "start"
    /\ IF ~stdin.valid \/ ~IsSome(stdin.prompt)
       THEN TsFail /\ UNCHANGED userPrompt
       ELSE /\ userPrompt' = toLowerCase(Get(stdin.prompt))
            /\ pc' = "load"
            /\ UNCHANGED <<stderr, exitCode>>
    /\ UNCHANGED <<hook, stdin, ruleFile, projectDir, projectFile, globalFile,
                   contextFiles, rulesPath, rules, analysis, matchedSkills,
                   message, stdout, call, ret>>

\* TS main: choose the rule file and JSON.parse(readFileSync(rulesPath))
TsLoadRules ==
    /\ hook = "ts"
    /\ pc = "load"
    /\ LET path == TsRulesPath(projectDir, projectFile)
           file == IF path = "project" THEN projectFile ELSE globalFile
       IN  /\ rulesPath' = path
           /\ IF file.kind \in {"absent", "corrupt"}
              THEN TsFail /\ UNCHANGED rules
              ELSE /\ rules' = file
                   /\ pc' = "match"
                   /\ UNCHANGED <<stderr, exitCode>>
    /\ UNCHANGED <<hook, stdin, ruleFile, projectDir, projectFile, globalFile,
                   userPrompt, contextFiles, analysis, matchedSkills, message,
                   stdout, call, ret>>

\* TS main: the loop over Object.entries(rules.skills)
TsMatchSkills ==
    /\ hook = "ts"
    /\ pc = "match"
    /\ \E r \in {TsMatchLoop(TsEntries(rules), 1, userPrompt, <<>>)} :
       IF r.threw
       THEN TsFail /\ UNCHANGED matchedSkills
       ELSE /\ matchedSkills' = r.matchedSkills
            /\ pc' = "output"
            /\ UNCHANGED <<stderr, exitCode>>
    /\ UNCHANGED <<hook, stdin, ruleFile, projectDir, projectFile, globalFile,
                   userPrompt, contextFiles, rulesPath, rules, analysis, message,
                   stdout, call, ret>>

\* TS main: the directive on stdout, the debug line on stderr, exit 0
TsOutput ==
    /\ hook = "ts"
    /\ pc = "output"
    /\ LET blockingSkills == TsBlocking(matchedSkills)
           suggestedSkills == TsSuggested(matchedSkills)
       IN  /\ stdout' = IF Len(blockingSkills) > 0
                        THEN Append(stdout, TsDirective(blockingSkills))
                        ELSE stdout
           /\ stderr' = IF Len(suggestedSkills) > 0
                        THEN Append(stderr, ErrLine("[DEBUG] Suggested skills",
                                                    Names(suggestedSkills)))
                        ELSE stderr
    /\ Exit(0)
    /\ UNCHANGED <<hook, stdin, ruleFile, projectDir, projectFile, globalFile,
                   userPrompt, contextFiles, rulesPath, rules, analysis,
                   matchedSkills, message, call, ret>>

Next ==
    \/ JsReadInput
    \/ JsAnalyze
    \/ JsOutput
    \/ TsReadInput
    \/ TsLoadRules
    \/ TsMatchSkills
    \/ TsOutput

Spec == Init /\ [][Next]_vars

(***************************************************************************)
(* The hooks on rule files with dormant and malformed rules.               *)
(***************************************************************************)
S_cpp == <<"c","+","+">>

\* dormant rules: no member of triggers that can match
JsDormantPool ==
    << JsRule("no-triggers", "suggest", "low", None),
       JsRule("empty-triggers", "block", "high",
              Triggers(Some(<<>>), Some(<<>>), Some(<<>>), None)),
       JsRule("exclude-only", "suggest", "low",
              Triggers(None, None, None, Some(<<S_starSql>>))) >>

JsEdgePool ==
    JsDormantPool \o
    << JsRule("unknown-mode", "enforce", "high",
              Triggers(Some(<<S_react>>), None, Some(<<S_starSql>>), None)),
       JsRule("cpp-guidelines", "suggest", "medium",
              Triggers(Some(<<S_cpp>>), None, None, None)),
       JsRule("frontend-dev-guidelines", "suggest", "high",
              Triggers(Some(<<S_react>>), None, None, None)),
       JsRule("prod-guard", "block", "critical",
              Triggers(None, Some(<<S_deleteProduction, S_drop>>), None, None)) >>

\* documents for the JS hook: lists of rules, and documents in the shape the
\* TS hook reads, a mapping from name to rule
JsEdgeRuleFiles ==
    {ListDoc(c) : c \in Collections(JsEdgePool, MaxRules)}
    \cup {MapDoc(c) : c \in Collections(TsRulePool, MaxRules)}

TsDormantPool ==
    << TsRule("no-triggers", "suggest", "low", None),
       TsRule("empty-triggers", "block", "high",
              PromptTriggers(Some(<<>>), Some(<<>>))),
       TsRule("no-members", "suggest", "low", PromptTriggers(None, None)) >>

TsEdgePool ==
    TsDormantPool \o
    << TsRule("unknown-enforcement", "enforce", "high",
              PromptTriggers(Some(<<S_react>>), None)),
       TsRule("cpp-guidelines", "suggest", "medium",
              PromptTriggers(None, Some(<<S_cpp>>))),
       TsRule("frontend-dev-guidelines", "suggest", "high",
              PromptTriggers(Some(<<S_react>>), Some(<<S_createComponent>>))),
       TsRule("prod-guard", "block", "critical",
              PromptTriggers(None, Some(<<S_deleteProduction, S_drop>>))),
       TsRule("react-cpp", "suggest", "low",
              PromptTriggers(Some(<<S_react>>), Some(<<S_cpp>>))) >>

TsEdgeRuleFiles == {MapDoc(c) : c \in Collections(TsEdgePool, MaxRules)}

EdgePrompts == {P_react, P_drop}

JsEdgeStdins ==
    {StdinDoc(Some(p), f, None) : p \in EdgePrompts,
                                  f \in {None, Some(<<F_db>>), Some(<<F_app>>)}}

TsEdgeStdins == {StdinDoc(Some(p), None, None) : p \in EdgePrompts}

InitEdgeJs ==
    /\ hook = "js"
    /\ stdin \in JsEdgeStdins
    /\ ruleFile \in JsEdgeRuleFiles
    /\ projectDir = FALSE
    /\ projectFile = AbsentFile
    /\ globalFile = AbsentFile
    /\ Idle

InitEdgeTs ==
    /\ hook = "ts"
    /\ stdin \in TsEdgeStdins
    /\ ruleFile = AbsentFile
    /\ projectDir \in BOOLEAN
    /\ projectFile \in {AbsentFile}
    /\ globalFile \in TsEdgeRuleFiles
    /\ Idle

InitEdge == InitEdgeJs \/ InitEdgeTs

SpecEdge == InitEdge /\ [][Next]_vars

(***************************************************************************)
(* analyzePrompt called repeatedly by a process that has required the      *)
(* module, while the rule file on disk changes between the calls.          *)
(***************************************************************************)
MaxCalls == 3

ReloadRuleFiles ==
    {AbsentFile, CorruptFile}
    \cup {ListDoc(c) : c \in Collections(SubSeq(JsRulePool, 1, 3), MaxRules)}

ReloadPrompts == {P_react, P_drop}

\* call: the number of calls made; rules: the document the last call loaded;
\* ret: the document the call before it loaded
InitReload ==
    /\ hook = "js"
    /\ stdin = InvalidStdin
    /\ ruleFile \in ReloadRuleFiles
    /\ projectDir = FALSE
    /\ projectFile = AbsentFile
    /\ globalFile = AbsentFile
    /\ pc = "required"
    /\ userPrompt = <<>>
    /\ contextFiles = <<>>
    /\ rulesPath = ""
    /\ rules = AbsentFile
    /\ analysis = NoAnalysis
    /\ matchedSkills = <<>>
    /\ message = None
    /\ stdout = <<>>
    /\ stderr = <<>>
    /\ exitCode = -1
    /\ call = 0
    /\ ret = AbsentFile

\* the rule file is rewritten, removed or damaged between two calls
WriteRuleFile ==
    /\ pc = "required"
    /\ \E f \in ReloadRuleFiles : f # ruleFile /\ ruleFile' = f
    /\ UNCHANGED <<hook, stdin, projectDir, projectFile, globalFile, pc, userPrompt,
                   contextFiles, rulesPath, rules, analysis, matchedSkills, message,
                   stdout, stderr, exitCode, call, ret>>

\* one call analyzePrompt(prompt) of the exported function
CallAnalyzePrompt ==
    /\ pc = "required"
    /\ call < MaxCalls
    /\ \E p \in ReloadPrompts :
       \E a \in {analyzePrompt(ruleFile, p, <<>>)} :
          /\ userPrompt' = p
          /\ rules' = loadSkillRules(ruleFile).rules
          /\ analysis' = [suggestions |-> a.suggestions,
                          blockingSkills |-> a.blockingSkills]
          /\ stderr' = stderr \o a.err
    /\ ret' = rules
    /\ call' = call + 1
    /\ UNCHANGED <<hook, stdin, ruleFile, projectDir, projectFile, globalFile, pc,
                   contextFiles, rulesPath, matchedSkills, message, stdout, exitCode>>

NextReload == WriteRuleFile \/ CallAnalyzePrompt

SpecReload == InitReload /\ [][NextReload]_vars

(***************************************************************************)
(* The shell wrappers: skill-activation-prompt.sh, run directly or by the   *)
(* debug wrapper.  call is the environment of the run, ret the shell        *)
(* variables: sh the exit status of skill-activation-prompt.sh (-1 while it *)
(* has not ended), tsxRan whether tsx was executed, exit_code the wrapper's *)
(* variable (None while unset), last the wrapper's $?.                      *)
(***************************************************************************)
TsxStatuses == {0, 1, 2, 127, 130}

WrapperEnvs ==
    [logOpens : BOOLEAN, cdOk : BOOLEAN, tsxExecutable : BOOLEAN,
     tsxStatus : TsxStatuses]

InitWrapper ==
    /\ hook \in {"wrapper", "sh"}
    /\ pc = (IF hook = "wrapper" THEN "wrapper:start" ELSE "sh:dir")
    /\ call \in WrapperEnvs
    /\ ret = [sh |-> -1, tsxRan |-> FALSE, exit_code |-> None, last |-> 0]
    /\ stdin = InvalidStdin
    /\ ruleFile = AbsentFile
    /\ projectDir \in BOOLEAN
    /\ projectFile = AbsentFile
    /\ globalFile = AbsentFile
    /\ userPrompt = <<>>
    /\ contextFiles = <<>>
    /\ rulesPath = ""
    /\ rules = AbsentFile
    /\ analysis = NoAnalysis
    /\ matchedSkills = <<>>
    /\ message = None
    /\ stdout = <<>>
    /\ stderr = <<>>
    /\ exitCode = -1

\* debug wrapper: the redirection `>> "$LOG_FILE" 2>&1` of the group; when
\* the log cannot be opened the group is not run and $? is 1
WrapperOpenLog ==
    /\ hook = "wrapper"
    /\ pc = "wrapper:start"
    /\ IF call.logOpens
       THEN pc' = "sh:dir" /\ UNCHANGED <<ret, stderr>>
       ELSE /\ pc' = "wrapper:exit"
            /\ ret' = [ret EXCEPT !.last = 1]
            /\ stderr' = Append(stderr, ErrLine("debug.log: cannot open", <<>>))
    /\ UNCHANGED <<hook, stdin, ruleFile, projectDir, projectFile, globalFile,
                   userPrompt, contextFiles, rulesPath, rules, analysis,
                   matchedSkills, message, stdout, exitCode, call>>

\* skill-activation-prompt.sh ends with a status: the process ends when it
\* was run directly, the wrapper goes on when it ran it
ShExit(code, ran) ==
    /\ ret' = [ret EXCEPT !.sh = code, !.tsxRan = ran, !.last = code]
    /\ IF hook = "sh"
       THEN exitCode' = code /\ pc' = "done"
       ELSE pc' = "wrapper:status" /\ UNCHANGED exitCode

\* skill-activation-prompt.sh: HOOKS_DIR and cd "$HOOKS_DIR" || exit 1
ShHooksDir ==
    /\ pc = "sh:dir"
    /\ rulesPath' = (IF projectDir THEN "project" ELSE "global")
    /\ IF call.cdOk
       THEN pc' = "sh:tsx" /\ UNCHANGED <<ret, exitCode, stderr>>
       ELSE /\ ShExit(1, FALSE)
            /\ stderr' = Append(stderr, ErrLine("cd: No such file or directory", <<>>))
    /\ UNCHANGED <<hook, stdin, ruleFile, projectDir, projectFile, globalFile,
                   userPrompt, contextFiles, rules, analysis, matchedSkills,
                   message, stdout, call>>

\* skill-activation-prompt.sh: the test of ./node_modules/.bin/tsx and
\* `cat | tsx skill-activation-prompt.ts; exit $?` under set -e
ShRunTsx ==
    /\ pc = "sh:tsx"
    /\ IF call.tsxExecutable
       THEN ShExit(call.tsxStatus, TRUE) /\ UNCHANGED stderr
       ELSE /\ ShExit(1, FALSE)
            /\ stderr' = Append(stderr, ErrLine("Error: tsx not found", <<>>))
    /\ UNCHANGED <<hook, stdin, ruleFile, projectDir, projectFile, globalFile,
                   userPrompt, contextFiles, rulesPath, rules, analysis,
                   matchedSkills, message, stdout, call>>

\* debug wrapper: exit_code=$? and the two echo lines that end the group
WrapperStatus ==
    /\ hook = "wrapper"
    /\ pc = "wrapper:status"
    /\ ret' = [ret EXCEPT !.exit_code = Some(ret.last), !.last = 0]
    /\ pc' = "wrapper:exit"
    /\ UNCHANGED <<hook, stdin, ruleFile, projectDir, projectFile, globalFile,
                   userPrompt, contextFiles, rulesPath, rules, analysis,
                   matchedSkills, message, stdout, stderr, exitCode, call>>

\* debug wrapper: exit $exit_code; with exit_code unset this is `exit`,
\* which ends with $?
WrapperExit ==
    /\ hook = "wrapper"
    /\ pc = "wrapper:exit"
    /\ Exit(IF IsSome(ret.exit_code) THEN Get(ret.exit_code) ELSE ret.last)
    /\ UNCHANGED <<hook, stdin, ruleFile, projectDir, projectFile, globalFile,
                   userPrompt, contextFiles, rulesPath, rules, analysis,
                   matchedSkills, message, stdout, stderr, call, ret>>

NextWrapper ==
    \/ WrapperOpenLog
    \/ ShHooksDir
    \/ ShRunTsx
    \/ WrapperStatus
    \/ WrapperExit

SpecWrapper == InitWrapper /\ [][NextWrapper]_vars

(***************************************************************************)
(* post-tool-use-tracker.sh over the invocations of one session.  call is   *)
(* the environment of the last invocation (TOOL_NAME, TOOL_FILE_PATH), ret  *)
(* the session's files: MODIFIED_FILES_LOG, one path per line (the time     *)
(* stamp of a line is left out), CHECKS_LOG, one block per logged file, and *)
(* the number of invocations made.                                          *)
(***************************************************************************)
MaxInvocations == 5

EndsWith(s, suffix) ==
    /\ Len(s) >= Len(suffix)
    /\ SubSeq(s, Len(s) - Len(suffix) + 1, Len(s)) = suffix

X_md == <<".","m","d">>
X_txt == <<".","t","x","t">>
X_json == <<".","j","s","o","n">>
X_rb == <<".","r","b">>
X_specRb == <<"_","s","p","e","c",".","r","b">>
X_js == <<".","j","s">>
X_jsx == <<".","j","s","x">>
X_ts == <<".","t","s">>
X_tsx == <<".","t","s","x">>
X_css == <<".","c","s","s">>
X_scss == <<".","s","c","s","s">>
X_routes == <<"c","o","n","f","i","g","/","r","o","u","t","e","s",".","r","b">>
X_gemfile == <<"G","e","m","f","i","l","e">>
X_models == <<"a","p","p","/","m","o","d","e","l","s","/">>
X_controllers == <<"a","p","p","/","c","o","n","t","r","o","l","l","e","r","s","/">>
X_migrate == <<"d","b","/","m","i","g","r","a","t","e","/">>

F_userRb == <<"a","p","p","/","m","o","d","e","l","s","/","u","s","e","r",".","r","b">>
F_readme == <<"R","E","A","D","M","E",".","m","d">>
F_package == <<"p","a","c","k","a","g","e",".","j","s","o","n">>
F_mainPy == <<"m","a","i","n",".","p","y">>

\* the tool filter that lets every tool through
TrackedTool_everyTool(tool) == TRUE

\* TOOL_NAME is Edit, Write or MultiEdit
TrackedTool(tool) == tool \in {"Edit", "Write", "MultiEdit"}

\* [[ "$FILE_PATH" =~ \.(md|txt|json)$ ]]
SkippedPath(path) ==
    EndsWith(path, X_md) \/ EndsWith(path, X_txt) \/ EndsWith(path, X_json)

\* detect_checks_needed: the lines it prints (sort -u: a set)
detect_checks_needed(file) ==
    (IF EndsWith(file, X_rb) /\ ~EndsWith(file, X_specRb)
     THEN {"rubocop", "rspec"}
          \cup (IF includes(file, X_models) THEN {"rspec:models"} ELSE {})
          \cup (IF includes(file, X_controllers) THEN {"rspec:requests"} ELSE {})
          \cup (IF includes(file, X_migrate) THEN {"db:migrate"} ELSE {})
     ELSE {})
    \cup (IF \E x \in {X_js, X_jsx, X_ts, X_tsx} : EndsWith(file, x)
          THEN {"javascript:check"} ELSE {})
    \cup (IF EndsWith(file, X_css) \/ EndsWith(file, X_scss)
          THEN {"tailwind:build"} ELSE {})
    \cup (IF EndsWith(file, X_routes) THEN {"routes:check"} ELSE {})
    \cup (IF EndsWith(file, X_gemfile) THEN {"bundle:check"} ELSE {})

\* the number of distinct "  - check" lines of CHECKS_LOG
UniqueChecks(checksLog) ==
    Cardinality(UNION {checksLog[i].checks : i \in 1..Len(checksLog)})

TrackerTools == {"Edit", "MultiEdit", "Read", ""}

TrackerPaths == {<<>>, F_userRb, F_readme, F_package, F_mainPy, F_app}

InitTracker ==
    /\ hook = "tracker"
    /\ pc = "session"
    /\ call = [TOOL_NAME |-> "", FILE_PATH |-> <<>>]
    /\ ret = [MODIFIED_FILES_LOG |-> <<>>, CHECKS_LOG |-> <<>>, invocations |-> 0]
    /\ stdin = InvalidStdin
    /\ ruleFile = AbsentFile
    /\ projectDir = FALSE
    /\ projectFile = AbsentFile
    /\ globalFile = AbsentFile
    /\ userPrompt = <<>>
    /\ contextFiles = <<>>
    /\ rulesPath = ""
    /\ rules = AbsentFile
    /\ analysis = NoAnalysis
    /\ matchedSkills = <<>>
    /\ message = None
    /\ stdout = <<>>
    /\ stderr = <<>>
    /\ exitCode = -1

\* one run of post-tool-use-tracker.sh
TrackerInvocation ==
    /\ pc = "session"
    /\ ret.invocations < MaxInvocations
    /\ \E tool \in TrackerTools, path \in TrackerPaths :
       /\ call' = [TOOL_NAME |-> tool, FILE_PATH |-> path]
       /\ IF ~TrackedTool(tool) \/ path = <<>> \/ SkippedPath(path)
          THEN /\ ret' = [ret EXCEPT !.invocations = @ + 1]
               /\ UNCHANGED stdout
          ELSE LET modified == Append(ret.MODIFIED_FILES_LOG, path)
                   checks == detect_checks_needed(path)
                   checksLog == IF checks # {}
                                THEN Append(ret.CHECKS_LOG,
                                            [file |-> path, checks |-> checks])
                                ELSE ret.CHECKS_LOG
                   FILE_COUNT == Len(modified)
               IN  /\ ret' = [MODIFIED_FILES_LOG |-> modified,
                              CHECKS_LOG |-> checksLog,
                              invocations |-> ret.invocations + 1]
                   /\ stdout' = IF FILE_COUNT > 3 /\ UniqueChecks(checksLog) > 0
                                THEN Append(stdout, <<"Modified files", FILE_COUNT>>)
                                ELSE stdout
    /\ exitCode' = 0
    /\ UNCHANGED <<hook, stdin, ruleFile, projectDir, projectFile, globalFile, pc,
                   userPrompt, contextFiles, rulesPath, rules, analysis,
                   matchedSkills, message, stderr>>

NextTracker == TrackerInvocation

SpecTracker == InitTracker /\ [][NextTracker]_vars

(***************************************************************************)
(* The matchers on their own: every short input.                           *)
(***************************************************************************)
MaxGlobLen == 3
MaxTextLen == 3
MaxKeywordLen == 2

\* all strings of at most n characters of an alphabet
RECURSIVE Strings(_, _)
Strings(alphabet, n) ==
    IF n = 0 THEN {<<>>}
    ELSE LET shorter == Strings(alphabet, n - 1)
         IN  shorter \cup {Append(w, c) : w \in shorter, c \in alphabet}

G_tsAnywhere == <<"*","*","/","*",".","t","s">>
G_aTs == <<"a",".","t","s">>

GlobPatterns ==
    Strings({"a", "/", ".", "*", "?"}, MaxGlobLen)
    \cup {S_srcStarStar, G_tsAnywhere, S_starSql, S_starTestSql}

GlobPaths ==
    Strings({"a", "/", "."}, MaxGlobLen)
    \cup {F_nested, F_app, G_aTs, F_db, F_migrateTest}

GlobLists ==
    {None, Some(<<>>)}
    \cup {Some(<<p>>) : p \in GlobPatterns}
    \cup {Some(<<S_starSql, p>>) : p \in GlobPatterns}

T_API == <<"A","P","I">>
T_useApi == <<"u","s","e"," ","t","h","e"," ","A","P","I">>

KeywordTexts == Strings({"a", "p", "A", " "}, MaxTextLen) \cup {T_API, T_useApi, P_rapidly}

KeywordWords == (Strings({"a", "p", "A"}, MaxKeywordLen) \ {<<>>}) \cup {S_api}

KeywordLists ==
    {None, Some(<<>>)}
    \cup {Some(<<k>>) : k \in KeywordWords}
    \cup {Some(<<S_react, k>>) : k \in KeywordWords}

MatcherIdle ==
    /\ stdin = InvalidStdin
    /\ ruleFile = AbsentFile
    /\ projectDir = FALSE
    /\ projectFile = AbsentFile
    /\ globalFile = AbsentFile
    /\ pc = "start"
    /\ userPrompt = <<>>
    /\ contextFiles = <<>>
    /\ rulesPath = ""
    /\ rules = AbsentFile
    /\ analysis = NoAnalysis
    /\ matchedSkills = <<>>
    /\ message = None
    /\ stdout = <<>>
    /\ stderr = <<>>
    /\ exitCode = -1
    /\ ret = <<>>

matcherVars == <<hook, stdin, ruleFile, projectDir, projectFile, globalFile,
                 userPrompt, contextFiles, rulesPath, rules, analysis,
                 matchedSkills, message, stdout, stderr, exitCode, call>>

InitGlob ==
    /\ hook = "glob"
    /\ call \in {[filePath |-> f, patterns |-> l] : f \in GlobPaths, l \in GlobLists}
    /\ MatcherIdle

\* a call of matchesFilePattern(filePath, patterns)
CallMatchesFilePattern ==
    /\ hook = "glob"
    /\ pc = "start"
    /\ ret' = Some(matchesFilePattern(call.filePath, call.patterns))
    /\ pc' = "done"
    /\ UNCHANGED matcherVars

NextGlob == CallMatchesFilePattern

SpecGlob == InitGlob /\ [][NextGlob]_vars

InitKeyword ==
    /\ hook \in {"jsKeyword", "tsKeyword"}
    /\ call \in {[text |-> t, keywords |-> l] : t \in KeywordTexts, l \in KeywordLists}
    /\ MatcherIdle

\* JS hook: the keyword check of analyzePrompt,
\* skill.triggers?.keywords && containsKeywords(prompt, keywords)
CallContainsKeywords ==
    /\ hook = "jsKeyword"
    /\ pc = "start"
    /\ ret' = Some(IsSome(call.keywords) /\ containsKeywords(call.text, call.keywords).val)
    /\ pc' = "done"
    /\ UNCHANGED matcherVars

\* TS hook: the keyword check of main on the lower-cased prompt
CallTsKeywordMatch ==
    /\ hook = "tsKeyword"
    /\ pc = "start"
    /\ ret' = Some(/\ IsSome(call.keywords)
                   /\ tsKeywordMatch(toLowerCase(call.text), Get(call.keywords)))
    /\ pc' = "done"
    /\ UNCHANGED matcherVars

NextKeyword == CallContainsKeywords \/ CallTsKeywordMatch

SpecKeyword == InitKeyword /\ [][NextKeyword]_vars

(***************************************************************************)
(* What the properties below talk about.                                   *)
(***************************************************************************)
\* the rules analyzePrompt iterates over
JsSkills == IF ruleFile.kind = "list" THEN ruleFile.skills ELSE <<>>

\* analyzePrompt has returned to main (JsOutput leaves analysis unchanged)
JsAnalyzed == hook = "js" /\ pc = "format"

JsFinished == hook = "js" /\ pc = "done"

BucketNames(bucket) == {bucket[i].skillName : i \in 1..Len(bucket)}

InBlocking(skill) == skill.name \in BucketNames(analysis.blockingSkills)
InSuggested(skill) == skill.name \in BucketNames(analysis.suggestions)

\* the MatchResults analyzePrompt returned for a rule
ResultsOf(skill) ==
    {analysis.suggestions[i] : i \in {j \in 1..Len(analysis.suggestions) :
                                       analysis.suggestions[j].skillName = skill.name}}
    \cup
    {analysis.blockingSkills[i] : i \in {j \in 1..Len(analysis.blockingSkills) :
                                          analysis.blockingSkills[j].skillName = skill.name}}

KeywordHit(skill) ==
    /\ IsSome(Trigger(skill, "keywords"))
    /\ containsKeywords(userPrompt, Trigger(skill, "keywords")).val

IntentHit(skill) == matchesIntent(userPrompt, Trigger(skill, "intentPatterns"))

\* the context files that match the rule's filePatterns
MatchingFiles(skill) ==
    SelectSeq(contextFiles, LAMBDA f : matchesFilePattern(f, Trigger(skill, "filePatterns")))

FileHit(skill) == Len(MatchingFiles(skill)) > 0

\* every file that matches filePatterns also matches an exclude pattern
ExclusionFires(skill) ==
    /\ FileHit(skill)
    /\ \A i \in 1..Len(MatchingFiles(skill)) :
          matchesFilePattern(MatchingFiles(skill)[i], Trigger(skill, "excludePatterns"))

\* the segments of a kind in everything written to stdout
Printed(kind) ==
    LET all == IF stdout = <<>> THEN <<>> ELSE stdout[1]
    IN  SelectSeq(all, LAMBDA g : g.kind = kind)

PrintedNames(kind) == [i \in 1..Len(Printed(kind)) |-> Printed(kind)[i].skillName]

Min(a, b) == IF a < b THEN a ELSE b

(***************************************************************************)
(* C1 - suggestions surfaced.                                              *)
(***************************************************************************)
\* C1: the suggestions written to stdout by the JS hook are the first
\* min(3, n) entries of the score-descending list of the n non-blocking
\* matches that analyzePrompt returned (so with more than 3, the top 3).
C1_TopThreeSurfaced ==
    JsFinished =>
        LET n == Len(analysis.suggestions)
            top == SubSeq(analysis.suggestions, 1, Min(3, n))
        IN  /\ PrintedNames("suggested") = [i \in 1..Len(top) |-> top[i].skillName]
            /\ \A i \in 1..(n - 1) :
                  analysis.suggestions[i].score >= analysis.suggestions[i + 1].score

(***************************************************************************)
(* C2 - the blocking bucket is never truncated.                            *)
(***************************************************************************)
\* a blocking rule the TS matching loop pushes
TsBlockingMatch(entry) ==
    /\ entry.enforcement = "block"
    /\ TsMatchSkill(entry, userPrompt).matchType # ""

\* C2: every rule with score > 0 and mode 'block' is in the blocking bucket
\* (JS) / among the matched skills (TS), and every blocking match is named
\* in the directive written to stdout, however many matches there are.
C2_BlockingNeverTruncated ==
    /\ JsAnalyzed =>
          \A k \in 1..Len(JsSkills) :
              (JsSkills[k].mode = "block"
               /\ ScoreSkill(JsSkills[k], userPrompt, contextFiles).score > 0)
              => InBlocking(JsSkills[k])
    /\ JsFinished =>
          PrintedNames("required") =
              [i \in 1..Len(analysis.blockingSkills) |-> analysis.blockingSkills[i].skillName]
    /\ (hook = "ts" /\ pc = "output") =>
          \A k \in 1..Len(TsEntries(rules)) :
              TsBlockingMatch(TsEntries(rules)[k])
              => \E i \in 1..Len(matchedSkills) :
                    /\ matchedSkills[i].name = TsEntries(rules)[k].name
                    /\ matchedSkills[i].enforcement = "block"
    /\ (hook = "ts" /\ pc = "done") =>
          PrintedNames("required") = Names(TsBlocking(matchedSkills))

\* two blocking rules matched next to several suggestions, and both are in
\* the directive
C2_Witness ==
    /\ JsFinished
    /\ Len(analysis.blockingSkills) = 2
    /\ Len(analysis.suggestions) > 1
    /\ Len(Printed("required")) = 2

(***************************************************************************)
(* C3 - exclusion override.                                                *)
(***************************************************************************)
\* C3: if at least one context file matches filePatterns and every such
\* file also matches an excludePattern, the rule's score is 0 and the rule
\* is in neither bucket, whatever its keyword and intent hits.
C3_ExclusionOverride ==
    JsAnalyzed =>
        \A k \in 1..Len(JsSkills) :
            ExclusionFires(JsSkills[k])
            => /\ ScoreSkill(JsSkills[k], userPrompt, contextFiles).score = 0
               /\ ~InBlocking(JsSkills[k])
               /\ ~InSuggested(JsSkills[k])

\* the scenario: *.sql / *_test.sql / migrate_test.sql, with a keyword and
\* an intent hit on the same prompt
C3_Witness ==
    /\ JsAnalyzed
    /\ contextFiles = <<F_migrateTest>>
    /\ \E k \in 1..Len(JsSkills) :
          /\ ExclusionFires(JsSkills[k])
          /\ KeywordHit(JsSkills[k])
          /\ IntentHit(JsSkills[k])
          /\ ~InSuggested(JsSkills[k])

(***************************************************************************)
(* C4 - additive score and ordered reasons.                                *)
(***************************************************************************)
ExpectedScore(skill) ==
    (IF KeywordHit(skill) THEN 2 ELSE 0)
    + (IF IntentHit(skill) THEN 3 ELSE 0)
    + (IF FileHit(skill) THEN 2 ELSE 0)

ExpectedReasons(skill) ==
    (IF KeywordHit(skill) THEN <<"keyword match">> ELSE <<>>)
    \o (IF IntentHit(skill) THEN <<"intent match">> ELSE <<>>)
    \o (IF FileHit(skill) THEN <<FileReason(Len(MatchingFiles(skill)))>> ELSE <<>>)

\* C4: when the exclusion override does not fire, the score is
\* 2*[keyword hit] + 3*[intent hit] + 2*[file hit], the reasons are
\* 'keyword match', 'intent match', 'file context (N files)' in this order
\* for exactly the triggers that hit, and without context files the file
\* triggers contribute nothing.
C4_AdditiveScore ==
    JsAnalyzed =>
        \A k \in 1..Len(JsSkills) :
            ~ExclusionFires(JsSkills[k])
            => IF ExpectedScore(JsSkills[k]) = 0
               THEN ResultsOf(JsSkills[k]) = {}
               ELSE /\ ResultsOf(JsSkills[k]) # {}
                    /\ \A m \in ResultsOf(JsSkills[k]) :
                          /\ m.score = ExpectedScore(JsSkills[k])
                          /\ m.reasons = ExpectedReasons(JsSkills[k])
                          /\ contextFiles = <<>>
                             => \A i \in 1..Len(m.reasons) :
                                   m.reasons[i] \in {"keyword match", "intent match"}

\* a rule whose keyword, intent and file triggers all hit: score 7 and the
\* three reasons in order
C4_Witness ==
    /\ JsAnalyzed
    /\ \E i \in 1..Len(analysis.suggestions) :
          /\ analysis.suggestions[i].score = 7
          /\ analysis.suggestions[i].reasons =
                <<"keyword match", "intent match", "file context (1 files)">>

(***************************************************************************)
(* C5 - score > 0 iff a trigger matches.                                   *)
(***************************************************************************)
AnyHit(skill) == KeywordHit(skill) \/ IntentHit(skill) \/ FileHit(skill)

\* C5 (as stated): the final score is > 0 whenever at least one of the
\* keyword, intent or file triggers matches, and exactly 0 when none match.
C5_PositiveIffAnyHit ==
    JsAnalyzed =>
        \A k \in 1..Len(JsSkills) :
            /\ AnyHit(JsSkills[k])
               <=> ScoreSkill(JsSkills[k], userPrompt, contextFiles).score > 0
            /\ AnyHit(JsSkills[k])
               <=> (InSuggested(JsSkills[k]) \/ InBlocking(JsSkills[k]))

\* C5 (amended): the final score is > 0 whenever at least one trigger
\* matches and the exclusion override does not fire, and exactly 0 when no
\* trigger matches.
C5_PositiveUnlessExcluded ==
    JsAnalyzed =>
        \A k \in 1..Len(JsSkills) :
            /\ (AnyHit(JsSkills[k]) /\ ~ExclusionFires(JsSkills[k]))
               => /\ ScoreSkill(JsSkills[k], userPrompt, contextFiles).score > 0
                  /\ InSuggested(JsSkills[k]) \/ InBlocking(JsSkills[k])
            /\ ~AnyHit(JsSkills[k])
               => /\ ScoreSkill(JsSkills[k], userPrompt, contextFiles).score = 0
                  /\ ~InSuggested(JsSkills[k])
                  /\ ~InBlocking(JsSkills[k])

\* one rule matched by its file trigger alone and kept, another rule of the
\* same collection without any hit and dropped
C5_Witness ==
    /\ JsAnalyzed
    /\ \E k, l \in 1..Len(JsSkills) :
          /\ FileHit(JsSkills[k])
          /\ ~KeywordHit(JsSkills[k])
          /\ ~IntentHit(JsSkills[k])
          /\ ~ExclusionFires(JsSkills[k])
          /\ InSuggested(JsSkills[k])
          /\ ~AnyHit(JsSkills[l])
          /\ ~InSuggested(JsSkills[l])
          /\ ~InBlocking(JsSkills[l])

(***************************************************************************)
(* C6 - keyword matching is case-insensitive and whole-word.               *)
(***************************************************************************)
\* w occurs in t between two word boundaries
WholeWordOccurs(t, w) ==
    \E i \in 1..(Len(t) + 1) :
        /\ OccursAt(t, w, i)
        /\ AtWordBoundary(t, i)
        /\ AtWordBoundary(t, i + Len(w))

WholeWordMatch(text, keywords) ==
    /\ IsSome(keywords)
    /\ \E k \in 1..Len(Get(keywords)) :
          WholeWordOccurs(toLowerCase(text), toLowerCase(Get(keywords)[k]))

\* C6: in both hooks the keyword check reports a match iff some keyword of
\* the list occurs in the text delimited by word boundaries, ignoring case;
\* an empty or absent list never matches.
C6_KeywordWholeWord ==
    (hook \in {"jsKeyword", "tsKeyword"} /\ pc = "done")
    => Get(ret) = WholeWordMatch(call.text, call.keywords)

(***************************************************************************)
(* C7 - a blocking rule with a regular-expression intent pattern.          *)
(***************************************************************************)
\* some pattern of the list, read as a regular expression, matches
\* somewhere in the prompt, case-insensitively
RegexIntentMatches(prompt, patterns) ==
    /\ IsSome(patterns)
    /\ \E k \in 1..Len(Get(patterns)) :
          /\ RegExpNew(Get(patterns)[k]).ok
          /\ RegExpTest(RegExpNew(Get(patterns)[k]), prompt, TRUE)

Without(q, k) == [i \in 1..(Len(q) - 1) |-> IF i < k THEN q[i] ELSE q[i + 1]]

\* C7: a rule with block enforcement whose intent pattern matches the
\* prompt as a regular expression is placed in the blocking bucket, and the
\* suggested bucket is what it is without that rule.
C7_RegexIntentBlocks ==
    /\ JsAnalyzed =>
          \A k \in 1..Len(JsSkills) :
              (/\ JsSkills[k].mode = "block"
               /\ RegexIntentMatches(userPrompt, Trigger(JsSkills[k], "intentPatterns")))
              => /\ InBlocking(JsSkills[k])
                 /\ analysis.suggestions =
                       analyzePrompt(ListDoc(Without(JsSkills, k)),
                                     userPrompt, contextFiles).suggestions
    /\ (hook = "ts" /\ pc = "output") =>
          \A k \in 1..Len(TsEntries(rules)) :
              LET entry == TsEntries(rules)[k] IN
              (/\ entry.enforcement = "block"
               /\ IsSome(entry.promptTriggers)
               /\ RegexIntentMatches(userPrompt, Get(entry.promptTriggers).intentPatterns))
              => /\ entry.name \in {TsBlocking(matchedSkills)[i].name :
                                      i \in 1..Len(TsBlocking(matchedSkills))}
                 /\ TsSuggested(matchedSkills) =
                       TsSuggested(TsMatchLoop(Without(TsEntries(rules), k), 1,
                                               userPrompt, <<>>).matchedSkills)

(***************************************************************************)
(* C8, C9 - glob semantics of matchesFilePattern.                          *)
(***************************************************************************)
\* glob matching as the patterns are documented: '**' any sequence of
\* characters, '*' any run of characters other than '/', '?' one character,
\* anything else itself; the whole path must be matched
RECURSIVE GlobMatches(_, _, _, _)
GlobMatches(pattern, i, path, j) ==
    IF i > Len(pattern) THEN j = Len(path) + 1
    ELSE IF pattern[i] = "*" /\ i < Len(pattern) /\ pattern[i + 1] = "*"
         THEN \E j2 \in j..(Len(path) + 1) : GlobMatches(pattern, i + 2, path, j2)
    ELSE IF pattern[i] = "*"
         THEN \E j2 \in j..(Len(path) + 1) :
                 /\ \A x \in j..(j2 - 1) : path[x] # "/"
                 /\ GlobMatches(pattern, i + 1, path, j2)
    ELSE IF pattern[i] = "?"
         THEN j <= Len(path) /\ GlobMatches(pattern, i + 1, path, j + 1)
    ELSE j <= Len(path) /\ path[j] = pattern[i] /\ GlobMatches(pattern, i + 1, path, j + 1)

HasStarStar(pattern) == includes(pattern, <<"*", "*">>)

GlobReturned == hook = "glob" /\ pc = "done"

\* C8: a '**' matches any sequence of characters including path
\* separators, so a pattern with '**' matches every path the glob allows,
\* nested any number of directory levels deep.
C8_StarStarCrossesSeparators ==
    (GlobReturned /\ IsSome(call.patterns)) =>
        \A k \in 1..Len(Get(call.patterns)) :
            (/\ HasStarStar(Get(call.patterns)[k])
             /\ GlobMatches(Get(call.patterns)[k], 1, call.filePath, 1))
            => Get(ret) = TRUE

\* C9: for patterns of '*', '?', '.' and literal characters, the result is
\* true iff at least one pattern of the list matches the whole path, '*'
\* standing for a run without '/', '?' for one character and '.' for
\* itself; it is false for an empty or absent list.
C9_GlobSemantics ==
    GlobReturned =>
        IF ~IsSome(call.patterns) THEN Get(ret) = FALSE
        ELSE (\A k \in 1..Len(Get(call.patterns)) : ~HasStarStar(Get(call.patterns)[k]))
             => Get(ret) = (\E k \in 1..Len(Get(call.patterns)) :
                               GlobMatches(Get(call.patterns)[k], 1, call.filePath, 1))

\* '*.sql' against 'migrate_test.sql' matches, through the second pattern
\* of a list whose first pattern matches only a prefix of the path
C9_Witness ==
    /\ GlobReturned
    /\ call.filePath = F_migrateTest
    /\ call.patterns = Some(<<S_starSql, S_starTestSql>>)
    /\ Get(ret) = TRUE

(***************************************************************************)
(* C10 - a missing or unparsable rule file.                                *)
(***************************************************************************)
\* the rule file the hook reads is absent or does not parse
RuleFileUnusable ==
    IF hook = "js" THEN ruleFile.kind \in {"absent", "corrupt"}
    ELSE (IF TsRulesPath(projectDir, projectFile) = "project"
          THEN projectFile ELSE globalFile).kind \in {"absent", "corrupt"}

PromptGiven == stdin.valid /\ IsSome(stdin.prompt) /\ Get(stdin.prompt) # <<>>

\* C10: with a missing or unparsable rule file the hook raises nothing: the
\* Decision is empty, nothing is written to stdout and the process exits
\* with status 0.
C10_UnusableRuleFileSucceeds ==
    (hook \in {"js", "ts"} /\ pc = "done" /\ PromptGiven /\ RuleFileUnusable)
    => /\ exitCode = 0
       /\ analysis = NoAnalysis
       /\ matchedSkills = <<>>
       /\ stdout = <<>>

(***************************************************************************)
(* C11, C12 - which rule file the TS hook evaluates.                       *)
(***************************************************************************)
\* the TS hook is past the loading of the rule file (or has ended)
TsPastLoad == hook = "ts" /\ pc \in {"match", "output", "done"} /\ rulesPath # ""

ProjectUsable == projectDir /\ projectFile.kind \in {"list", "map"}

\* C11: the project rule file is used, alone, whenever it exists and
\* parses; in every other case the global file is used; the rules
\* evaluated come from exactly one of the two files.
C11_RuleFileSelection ==
    TsPastLoad =>
        /\ rulesPath = IF ProjectUsable THEN "project" ELSE "global"
        /\ pc \in {"match", "output"} =>
              rules = IF ProjectUsable THEN projectFile ELSE globalFile

\* C12: an invalid rule file at the project path does not crash the
\* process: the global file is then loaded and evaluated, and if that one
\* is invalid too the rule set is empty.
C12_CorruptProjectFallsBack ==
    (hook = "ts" /\ pc = "done" /\ PromptGiven /\ projectDir
     /\ projectFile.kind = "corrupt")
    => /\ exitCode = 0
       /\ rulesPath = "global"
       /\ IF globalFile.kind = "map"
          THEN matchedSkills =
                  TsMatchLoop(TsEntries(globalFile), 1, userPrompt, <<>>).matchedSkills
          ELSE matchedSkills = <<>> /\ stdout = <<>>

(***************************************************************************)
(* C13 - absent or empty prompt.                                           *)
(***************************************************************************)
NoPrompt == stdin.valid /\ (~IsSome(stdin.prompt) \/ Get(stdin.prompt) = <<>>)

\* C13: an absent or empty prompt ends the hook before the rule file is
\* loaded or a matcher runs: nothing is scored, nothing is written to
\* stdout, no error is raised and the exit status is 0.
C13_NoPromptShortCircuits ==
    (hook \in {"js", "ts"} /\ NoPrompt) =>
        /\ pc \in {"start", "done"}
        /\ pc = "done" =>
              /\ exitCode = 0
              /\ rulesPath = ""
              /\ analysis = NoAnalysis
              /\ matchedSkills = <<>>
              /\ stdout = <<>>
              /\ stderr = <<>>

(***************************************************************************)
(* C14 - exit status.                                                      *)
(***************************************************************************)
\* C14: every invocation of the activation hook ends with exit status 0,
\* whatever the input and the environment.
C14_AlwaysExitsZero ==
    (hook \in {"js", "ts"} /\ pc = "done") => exitCode = 0

(***************************************************************************)
(* C15 - a malformed rule among well-formed ones.                          *)
(***************************************************************************)
KnownModes == {"block", "warn", "suggest"}

\* a keyword the JS matcher cannot compile
BadKeyword(keyword) == ~RegExpNew(KeywordRegexSource(keyword)).ok

JsMalformed(skill) ==
    \/ ~IsSome(skill.triggers)
    \/ skill.mode \notin KnownModes
    \/ /\ IsSome(Trigger(skill, "keywords"))
       /\ \E k \in 1..Len(Get(Trigger(skill, "keywords"))) :
             BadKeyword(Get(Trigger(skill, "keywords"))[k])

TsMalformed(config) ==
    \/ ~IsSome(config.promptTriggers)
    \/ config.enforcement \notin KnownModes
    \/ /\ IsSome(Get(config.promptTriggers).intentPatterns)
       /\ \E k \in 1..Len(Get(Get(config.promptTriggers).intentPatterns)) :
             ~RegExpNew(Get(Get(config.promptTriggers).intentPatterns)[k]).ok

\* C15: a malformed rule (no triggers, an unknown mode/enforcement, a keyword
\* or intent pattern that is not a valid regular expression) does not abort
\* the resolution: the hook ends without an error, no malformed rule is in a
\* bucket, and the Decision is the one computed from the collection with the
\* malformed rules removed.
C15_MalformedRuleSkipped ==
    /\ (hook = "js" /\ pc = "done" /\ PromptGiven /\ ruleFile.kind = "list") =>
          LET kept == SelectSeq(ruleFile.skills, LAMBDA s : ~JsMalformed(s))
              d == analyzePrompt(ListDoc(kept), userPrompt, contextFiles)
          IN  /\ stderr = <<>>
              /\ analysis = [suggestions |-> d.suggestions,
                             blockingSkills |-> d.blockingSkills]
              /\ \A k \in 1..Len(ruleFile.skills) :
                    JsMalformed(ruleFile.skills[k]) =>
                       ~InBlocking(ruleFile.skills[k]) /\ ~InSuggested(ruleFile.skills[k])
    /\ (hook = "ts" /\ pc = "done" /\ PromptGiven /\ ~RuleFileUnusable
        /\ globalFile.kind = "map" /\ rulesPath = "global") =>
          LET kept == SelectSeq(globalFile.skills, LAMBDA c : ~TsMalformed(c))
          IN  /\ exitCode = 0
              /\ matchedSkills = TsMatchLoop(kept, 1, userPrompt, <<>>).matchedSkills

(***************************************************************************)
(* C17 - rule collections in which no rule has a trigger that can match.   *)
(***************************************************************************)
\* an optional list that is absent or empty
NoneOrEmpty(o) == ~IsSome(o) \/ Get(o) = <<>>

JsNoTriggerSets(skill) ==
    \A m \in {"keywords", "intentPatterns", "filePatterns"} :
        NoneOrEmpty(Trigger(skill, m))

TsNoTriggerSets(config) ==
    \/ ~IsSome(config.promptTriggers)
    \/ /\ NoneOrEmpty(Get(config.promptTriggers).keywords)
       /\ NoneOrEmpty(Get(config.promptTriggers).intentPatterns)

JsAllDormant ==
    /\ hook = "js" /\ PromptGiven /\ ruleFile.kind = "list"
    /\ \A k \in 1..Len(ruleFile.skills) : JsNoTriggerSets(ruleFile.skills[k])

TsAllDormant ==
    /\ hook = "ts" /\ PromptGiven /\ rulesPath = "global" /\ globalFile.kind = "map"
    /\ \A k \in 1..Len(globalFile.skills) : TsNoTriggerSets(globalFile.skills[k])

\* C17: when no rule of the collection has a non-empty keyword, intent or
\* file-pattern set, the Decision is empty whatever the prompt and the context
\* files: both buckets are empty, nothing is written and no error is raised.
C17_NoTriggersEmptyDecision ==
    /\ (JsAllDormant /\ pc \in {"format", "done"}) =>
          /\ analysis = NoAnalysis
          /\ stdout = <<>>
          /\ stderr = <<>>
    /\ (TsAllDormant /\ pc \in {"output", "done"}) =>
          /\ matchedSkills = <<>>
          /\ stdout = <<>>
          /\ stderr = <<>>
          /\ pc = "done" => exitCode = 0

\* the JS hook has ended on two or more dormant rules, one of them with empty
\* trigger lists, and with context files given
C17_Witness ==
    /\ JsAllDormant /\ pc = "done"
    /\ Len(ruleFile.skills) >= 2
    /\ \E k \in 1..Len(ruleFile.skills) :
          Trigger(ruleFile.skills[k], "filePatterns") = Some(<<>>)
    /\ contextFiles # <<>>
    /\ message = None

(***************************************************************************)
(* C18 - the two buckets partition the rules that scored.                  *)
(***************************************************************************)
ScoreOf(skill) == ScoreSkill(skill, userPrompt, contextFiles).score

\* the names on the TS hook's debug line of suggested skills
TsDebugNames ==
    UNION {{stderr[i].names[j] : j \in 1..Len(stderr[i].names)} :
              i \in {n \in 1..Len(stderr) : stderr[n].line = "[DEBUG] Suggested skills"}}

TsPrintedNames == {Printed("required")[i].skillName : i \in 1..Len(Printed("required"))}

\* C18: a rule that scored is in exactly one bucket, the blocking one iff
\* its mode/enforcement is "block" and the suggested one otherwise; a rule
\* with score 0 is in neither; the buckets are disjoint and hold nothing else.
C18_BucketsPartitionMatches ==
    /\ JsAnalyzed =>
          /\ \A k \in 1..Len(JsSkills) :
                LET skill == JsSkills[k] IN
                /\ InBlocking(skill) <=> (ScoreOf(skill) > 0 /\ skill.mode = "block")
                /\ InSuggested(skill) <=> (ScoreOf(skill) > 0 /\ skill.mode # "block")
          /\ BucketNames(analysis.blockingSkills) \cap BucketNames(analysis.suggestions) = {}
          /\ Len(analysis.blockingSkills) + Len(analysis.suggestions)
                = Cardinality({k \in 1..Len(JsSkills) : ScoreOf(JsSkills[k]) > 0})
    /\ (hook = "ts" /\ pc = "done" /\ exitCode = 0) =>
          /\ \A k \in 1..Len(rules.skills) :
                LET entry == rules.skills[k]
                    matched == TsMatchSkill(entry, userPrompt).matchType # ""
                IN  /\ entry.name \in TsPrintedNames
                          <=> (matched /\ entry.enforcement = "block")
                    /\ entry.name \in TsDebugNames
                          <=> (matched /\ entry.enforcement # "block")
          /\ TsPrintedNames \cap TsDebugNames = {}

\* analyzePrompt has returned a blocking skill, a suggestion of mode "warn"
\* and has dropped a rule that scored 0
C18_Witness ==
    /\ JsAnalyzed
    /\ Len(analysis.blockingSkills) > 0
    /\ \E i \in 1..Len(analysis.suggestions) : analysis.suggestions[i].mode = "warn"
    /\ \E k \in 1..Len(JsSkills) : ScoreOf(JsSkills[k]) = 0

(***************************************************************************)
(* C19 - the order of the suggested bucket.                                *)
(***************************************************************************)
\* the position at which the rule of a suggestion is declared
DeclaredAt(suggestion) ==
    CHOOSE k \in 1..Len(JsSkills) : JsSkills[k].name = suggestion.skillName

\* the rules that scored and are not blocking, in declaration order
NonBlockingMatches ==
    SelectSeq(JsSkills, LAMBDA s : ScoreOf(s) > 0 /\ s.mode # "block")

\* C19: the suggested bucket is in descending order of score, suggestions of
\* equal score are in the order their rules are declared, and the bucket is
\* a permutation of the non-blocking matches.
C19_SuggestionsSortedStable ==
    JsAnalyzed =>
       LET sug == analysis.suggestions IN
       /\ \A i, j \in 1..Len(sug) :
             i < j => /\ sug[i].score >= sug[j].score
                      /\ sug[i].score = sug[j].score
                            => DeclaredAt(sug[i]) < DeclaredAt(sug[j])
       /\ Len(sug) = Len(NonBlockingMatches)
       /\ \A k \in 1..Len(NonBlockingMatches) :
             \E i \in 1..Len(sug) :
                sug[i] = Suggestion(NonBlockingMatches[k],
                                    ScoreSkill(NonBlockingMatches[k], userPrompt,
                                               contextFiles))

\* the sort has moved a rule declared later ahead of one declared earlier
\* and has kept two suggestions of equal score
C19_Witness ==
    /\ JsAnalyzed
    /\ \E i, j \in 1..Len(analysis.suggestions) :
          /\ i < j
          /\ analysis.suggestions[i].score = analysis.suggestions[j].score
    /\ \E i, j \in 1..Len(analysis.suggestions) :
          /\ i < j
          /\ DeclaredAt(analysis.suggestions[i]) > DeclaredAt(analysis.suggestions[j])

(***************************************************************************)
(* C20 - what the JS hook writes for each kind of Decision.                *)
(***************************************************************************)
\* the invocation met an error: unparsable stdin, or an unparsable rule file
\* (read only when a prompt is given)
JsErrored == ~stdin.valid \/ (PromptGiven /\ ruleFile.kind = "corrupt")

\* every printed suggestion carries the name and the reasons of a suggestion
\* of the Decision
AdvisoryPrinted ==
    /\ Len(stdout) = 1
    /\ Printed("suggested") # <<>>
    /\ \A i \in 1..Len(Printed("suggested")) :
          \E j \in 1..Len(analysis.suggestions) :
             /\ Printed("suggested")[i].skillName = analysis.suggestions[j].skillName
             /\ Printed("suggested")[i].reasons = analysis.suggestions[j].reasons

\* C20: the output is of exactly one kind, chosen by the Decision: a
\* directive naming every blocking skill when there is one; else an advisory
\* with names and reasons when there is a suggestion; else nothing at all,
\* and an invocation that met an error is told apart by its error line.
C20_OutputKindByDecision ==
    JsFinished =>
       /\ JsErrored => stderr # <<>>
       /\ ~JsErrored =>
             /\ stderr = <<>>
             /\ IF analysis.blockingSkills # <<>>
                THEN /\ Len(stdout) = 1
                     /\ PrintedNames("required")
                           = [i \in 1..Len(analysis.blockingSkills) |->
                                analysis.blockingSkills[i].skillName]
                ELSE IF analysis.suggestions # <<>>
                     THEN AdvisoryPrinted
                     ELSE stdout = <<>>

ScenarioRuleLoaded ==
    IF hook = "js"
    THEN \E k \in 1..Len(JsSkills) : JsSkills[k] = JsRulePool[1]
    ELSE /\ hook = "ts" /\ ~RuleFileUnusable
         /\ LET file == IF TsRulesPath(projectDir, projectFile) = "project"
                        THEN projectFile ELSE globalFile
            IN  \E k \in 1..Len(file.skills) : file.skills[k] = TsRulePool[1]

\* every skill name in what the hook wrote to stdout and stderr
OutputNames ==
    {Printed("required")[i].skillName : i \in 1..Len(Printed("required"))}
    \cup {Printed("suggested")[i].skillName : i \in 1..Len(Printed("suggested"))}
    \cup (IF hook = "ts" THEN TsDebugNames ELSE {})

\* C22: with the rule frontend-dev-guidelines (keyword "react", not
\* blocking) loaded and the prompt "Create a React component with MUI", the
\* rule is in the suggested bucket with reason "keyword match", its name is
\* in the hook's output and the hook exits 0.
C22_ReactScenarioReported ==
    (pc = "done" /\ stdin.valid /\ stdin.prompt = Some(P_react) /\ ScenarioRuleLoaded)
    => /\ exitCode = 0
       /\ "frontend-dev-guidelines" \in OutputNames
       /\ hook = "js" =>
             \E i \in 1..Len(analysis.suggestions) :
                /\ analysis.suggestions[i].skillName = "frontend-dev-guidelines"
                /\ analysis.suggestions[i].reasons = <<"keyword match">>

(***************************************************************************)
(* C23 - the rule file is read again by every call.                        *)
(***************************************************************************)
\* the Decision of the rules of a file as it is on disk
DecisionFrom(file, prompt, files) ==
    LET skills == IF file.kind = "list" THEN file.skills ELSE <<>>
        looped == AnalyzeLoop(skills, 1, prompt, files, <<>>, <<>>)
    IN  [suggestions |-> SortByScore(looped.suggestions),
         blockingSkills |-> looped.blockingSkills]

\* C23: every call of analyzePrompt computes its Decision from the rule file
\* as it is on disk at the time of that call, never from what an earlier
\* call read.
C23_FreshLoadEveryCall ==
    [][call' # call => analysis' = DecisionFrom(ruleFile, userPrompt', contextFiles')]_vars

\* a second or later call has read a document other than the one the call
\* before it read, and has returned a Decision that is not empty
C23_Witness ==
    /\ pc = "required"
    /\ call >= 2
    /\ ret.kind = "list"
    /\ rules # ret
    /\ rules = ruleFile
    /\ analysis # NoAnalysis

(***************************************************************************)
(* C24 - exit status through the wrappers.                                 *)
(***************************************************************************)
\* C24: the debug wrapper ends with the exit status of the
\* skill-activation-prompt.sh it ran, and skill-activation-prompt.sh ends
\* with the status of the tsx run, or with 1 without running tsx when the
\* hooks directory cannot be entered or tsx is not executable.
C24_ExitStatusPropagates ==
    /\ (hook = "wrapper" /\ pc = "done") =>
          /\ ret.sh # -1
          /\ exitCode = ret.sh
    /\ (hook \in {"wrapper", "sh"} /\ ret.sh # -1) =>
          IF call.cdOk /\ call.tsxExecutable
          THEN ret.tsxRan /\ ret.sh = call.tsxStatus
          ELSE ~ret.tsxRan /\ ret.sh = 1
    /\ (hook = "sh" /\ pc = "done") => exitCode = ret.sh /\ ret.sh # -1

(***************************************************************************)
(* C25 - the modified-files log of the post-tool-use tracker.              *)
(***************************************************************************)
\* the environment of an invocation that is to be logged
ToBeLogged(env) ==
    /\ env.TOOL_NAME \in {"Edit", "Write", "MultiEdit"}
    /\ env.FILE_PATH # <<>>
    /\ \A x \in {X_md, X_txt, X_json} : ~EndsWith(env.FILE_PATH, x)

Returned_MatchResults ==
    {analysis.blockingSkills[i] : i \in 1..Len(analysis.blockingSkills)}
    \cup {analysis.suggestions[i] : i \in 1..Len(analysis.suggestions)}

RuleOf(result) == JsSkills[CHOOSE k \in 1..Len(JsSkills) : JsSkills[k].name = result.skillName]

\* the number of trigger kinds of a rule that hit
HitCount(skill) ==
    (IF KeywordHit(skill) THEN 1 ELSE 0)
    + (IF IntentHit(skill) THEN 1 ELSE 0)
    + (IF FileHit(skill) THEN 1 ELSE 0)

\* C26: every MatchResult in a bucket has a score in {2, 3, 4, 5, 7}, as
\* many reasons as trigger kinds hit, at least one, and never the reason
\* "excluded by pattern".
C26_MatchResultShape ==
    JsAnalyzed =>
       \A r \in Returned_MatchResults :
          /\ r.score \in {2, 3, 4, 5, 7}
          /\ Len(r.reasons) >= 1
          /\ Len(r.reasons) = HitCount(RuleOf(r))
          /\ \A i \in 1..Len(r.reasons) : r.reasons[i] # "excluded by pattern"

\* results with one and with two reasons have been returned while another
\* rule was dropped by its exclusion
C26_Witness ==
    /\ JsAnalyzed
    /\ \E r \in Returned_MatchResults : r.score = 5 /\ Len(r.reasons) = 2
    /\ \E r \in Returned_MatchResults : Len(r.reasons) = 1
    /\ \E k \in 1..Len(JsSkills) :
          ExclusionFires(JsSkills[k]) /\ ~InBlocking(JsSkills[k]) /\ ~InSuggested(JsSkills[k])

\* the files that match filePatterns and an exclude pattern as well
ExcludedFiles(skill) ==
    SelectSeq(MatchingFiles(skill),
              LAMBDA f : matchesFilePattern(f, Trigger(skill, "excludePatterns")))

\* C27: when a file that matches filePatterns matches no exclude pattern,
\* the rule keeps the whole +2 of the file context with its keyword and
\* intent contributions, and the N of "file context (N files)" counts every
\* file matching filePatterns, the excluded ones too.
C27_PartialExclusionKeepsAll ==
    JsAnalyzed =>
       \A k \in 1..Len(JsSkills) :
          LET skill == JsSkills[k] IN
          (FileHit(skill) /\ Len(ExcludedFiles(skill)) < Len(MatchingFiles(skill)))
          => /\ ResultsOf(skill) # {}
             /\ \A r \in ResultsOf(skill) :
                   /\ r.score = (IF KeywordHit(skill) THEN 2 ELSE 0)
                                + (IF IntentHit(skill) THEN 3 ELSE 0) + 2
                   /\ r.reasons[Len(r.reasons)]
                         = FileReason(Len(MatchingFiles(skill)))

\* a rule has been returned with one of its two matching files excluded
C27_Witness ==
    /\ JsAnalyzed
    /\ \E k \in 1..Len(JsSkills) :
          /\ Len(MatchingFiles(JsSkills[k])) = 2
          /\ Len(ExcludedFiles(JsSkills[k])) = 1
          /\ InSuggested(JsSkills[k])
          /\ KeywordHit(JsSkills[k])

(***************************************************************************)
(* C28 - when formatMessage gives nothing to print.                        *)
(***************************************************************************)
\* formatMessage returned null or the empty string
NoMessage == ~IsSome(message) \/ Get(message) = <<>>

\* C28: formatMessage yields nothing printable, and the JS hook writes
\* nothing, iff there is no blocking skill and the number of suggestions is
\* 0 or more than 3; otherwise the message is written, names every blocking
\* skill and lists the suggestions only when there are 1 to 3 of them.
C28_SilentIffNothingShown ==
    (JsFinished /\ PromptGiven) =>
       LET nb == Len(analysis.blockingSkills)
           ns == Len(analysis.suggestions)
       IN  /\ NoMessage <=> (nb = 0 /\ (ns = 0 \/ ns > 3))
           /\ NoMessage <=> stdout = <<>>
           /\ ~NoMessage =>
                 /\ stdout = <<Get(message)>>
                 /\ PrintedNames("required")
                       = [i \in 1..nb |-> analysis.blockingSkills[i].skillName]
                 /\ Printed("suggested") # <<>> <=> ns \in 1..3

\* the JS hook has ended silently on four suggestions
C28_Witness ==
    /\ JsFinished /\ PromptGiven
    /\ analysis.blockingSkills = <<>>
    /\ Len(analysis.suggestions) > 3
    /\ message = Some(<<>>)
    /\ stdout = <<>>

(***************************************************************************)
(* C29 - the matched skills of the TS hook.                                *)
(***************************************************************************)
TsKeywordHit(config) ==
    /\ IsSome(config.promptTriggers)
    /\ IsSome(Get(config.promptTriggers).keywords)
    /\ tsKeywordMatch(userPrompt, Get(Get(config.promptTriggers).keywords))

\* an intent pattern of the rule is not a valid regular expression
TsBadIntent(config) ==
    /\ IsSome(config.promptTriggers)
    /\ IsSome(Get(config.promptTriggers).intentPatterns)
    /\ \E k \in 1..Len(Get(Get(config.promptTriggers).intentPatterns)) :
          ~RegExpNew(Get(Get(config.promptTriggers).intentPatterns)[k]).ok

\* C29: in the TS hook a skill name is among the matched skills at most
\* once; a skill whose keyword matches is recorded with matchType "keyword"
\* and its intent patterns are not evaluated (an invalid one raises
\* nothing); a skill without promptTriggers is never matched.
C29_KeywordBeforeIntent ==
    /\ (hook = "ts" /\ pc = "output") =>
          /\ \A i, j \in 1..Len(matchedSkills) :
                matchedSkills[i].name = matchedSkills[j].name => i = j
          /\ \A k \in 1..Len(rules.skills) :
                LET config == rules.skills[k] IN
                /\ TsKeywordHit(config) =>
                      \E i \in 1..Len(matchedSkills) :
                         /\ matchedSkills[i].name = config.name
                         /\ matchedSkills[i].matchType = "keyword"
                /\ ~IsSome(config.promptTriggers) =>
                      \A i \in 1..Len(matchedSkills) : matchedSkills[i].name # config.name
    /\ (hook = "ts" /\ pc = "done" /\ exitCode = 1 /\ rules.kind = "map") =>
          \E k \in 1..Len(rules.skills) :
             TsBadIntent(rules.skills[k]) /\ ~TsKeywordHit(rules.skills[k])

\* the matching loop has ended with a skill matched by keyword whose intent
\* pattern is invalid, one whose keyword and intent pattern both match, and
\* one rule without promptTriggers
C29_Witness ==
    /\ hook = "ts" /\ pc = "output"
    /\ \E k \in 1..Len(rules.skills) :
          TsKeywordHit(rules.skills[k]) /\ TsBadIntent(rules.skills[k])
    /\ \E k \in 1..Len(rules.skills) :
          /\ TsKeywordHit(rules.skills[k])
          /\ ~TsBadIntent(rules.skills[k])
          /\ IsSome(Get(rules.skills[k].promptTriggers).intentPatterns)
          /\ tsIntentSome(userPrompt,
                          Get(Get(rules.skills[k].promptTriggers).intentPatterns), 1).val
    /\ \E k \in 1..Len(rules.skills) : ~IsSome(rules.skills[k].promptTriggers)

(***************************************************************************)
(* C30 - the JS hook on a document whose `skills` is a mapping.            *)
(***************************************************************************)
\* C30: when `skills` is a name-to-rule mapping the JS hook surfaces
\* nothing: analyzePrompt returns no Decision, nothing is written to stdout
\* and the hook exits 0 after its error line, whatever the prompt.
C30_MappingSurfacesNothing ==
    (hook = "js" /\ ruleFile.kind = "map" /\ PromptGiven) =>
       /\ pc \in {"start", "analyze", "done"}
       /\ analysis = NoAnalysis
       /\ stdout = <<>>
       /\ pc = "done" =>
             /\ exitCode = 0
             /\ message = None
             /\ stderr = <<ErrLine("Hook error", <<>>)>>

\* the JS hook has ended on a mapping that holds a blocking rule the prompt
\* matches
C30_Witness ==
    /\ hook = "js" /\ pc = "done" /\ ruleFile.kind = "map" /\ PromptGiven
    /\ \E k \in 1..Len(ruleFile.skills) :
          /\ ruleFile.skills[k].enforcement = "block"
          /\ TsMatchSkill(ruleFile.skills[k], toLowerCase(userPrompt)).matchType # ""
    /\ stdout = <<>>

====
